---------------------------- MODULE Spec2Model ----------------------------
(***************************************************************************)
(* Model of the math-problem solving pipeline of                           *)
(*   backend/AI-Services/math_solution.py          (discrete OCR pipeline) *)
(*   backend/AI-Services/simplified_math_solver.py (vision-direct variant) *)
(*                                                                         *)
(* Conventions                                                             *)
(*  - A Python str is a sequence of lexical units (Text): a brace, a       *)
(*    comma, a run of prose, or the literal text of one JSON member.       *)
(*    An f-string is the concatenation of its literal part and the         *)
(*    interpolated Text.                                                   *)
(*  - A Python dict is a function from its keys to its values.             *)
(*  - A float confidence is an integer number of hundredths (0.95 = 95).   *)
(*  - A call that may raise yields a completion: Returned(v) or Raised(e). *)
(*  - The values of a JSON member have the types of the prompt's response  *)
(*    schema (strings, lists of strings, a number); their contents vary.   *)
(***************************************************************************)
EXTENDS Integers, Sequences, FiniteSets, TLC

VARIABLES
    client,          \* SpecParse: the reasoning client under test
    backend_out,     \* SpecParse: what the reasoning backend did
    parsed,          \* SpecParse: the dictionary the client returned
    ppc,             \* SpecParse: "call" before the client ran, "done" after
    sel_primary,     \* SpecSelect: the primary argument of arbitration
    sel_fallback,    \* SpecSelect: the fallback argument of arbitration
    sel_best,        \* SpecSelect: the OCRResult arbitration returned
    spc,             \* SpecSelect: "call" before arbitration ran, "done" after
    environ,         \* Spec: the credentials the process environment holds
    solver,          \* Spec: the constructed solver (module, preference, availability)
    pc,              \* Spec: where the current solve stands
    input,           \* Spec: the argument of the current solve
    primary_result,  \* Spec: _perform_ocr's primary_result (None until set)
    fallback_result, \* Spec: _perform_ocr's fallback_result (None until set)
    calls,           \* Spec: the backend calls of the current solve, in order
    ret,             \* Spec: how the solve completed: returned value or raised exception
    last,            \* Spec: the previous completed solve_text_problem call (history)
    ocr_provider,    \* SpecOcr: the OCR provider method under test
    ocr_available,   \* SpecOcr: the provider's is_available()
    provider_out,    \* SpecOcr: what the OCR backend does when called
    provider_result, \* SpecOcr: what the provider method returned
    provider_calls,  \* SpecOcr: the outbound calls the provider method made
    opc,             \* SpecOcr: "call" before the provider ran, "done" after
    entry,           \* SpecEntry: the arguments and backend responses of one entry-point call
    running_loop,    \* SpecEntry: whether the caller's thread runs an event loop
    async_ret,       \* SpecEntry: how awaiting solve_math_from_image completed
    sync_ret,        \* SpecEntry: how solve_math_from_image_sync completed
    conc_shared,     \* SpecConc: whether the solves run on one solver instance
    conc_solver,     \* SpecConc: the solver instance of each solve
    conc_in,         \* SpecConc: the input and backend responses of each solve
    conc_frame,      \* SpecConc: the local variables of each solve_from_image call
    conc_pc,         \* SpecConc: where each solve stands
    conc_ret,        \* SpecConc: how each solve completed
    conc_overlap     \* SpecConc: a solve took a step while another was in flight (history)

parse_vars  == <<client, backend_out, parsed, ppc>>
select_vars == <<sel_primary, sel_fallback, sel_best, spc>>
solve_vars  == <<environ, solver, pc, input, primary_result, fallback_result, calls, ret, last>>
ocr_vars    == <<ocr_provider, ocr_available, provider_out, provider_result, provider_calls, opc>>
entry_vars  == <<entry, running_loop, async_ret, sync_ret>>
conc_vars   == <<conc_shared, conc_solver, conc_in, conc_frame, conc_pc, conc_ret, conc_overlap>>
vars == <<parse_vars, select_vars, solve_vars, ocr_vars, entry_vars, conc_vars>>

---------------------------------------------------------------------------
(* Bounds *)

\* Longest raw reasoning output, in lexical units.
MaxLen == 4

\* Most text annotations in one Vision response.
MaxRegions == 3

\* Number of solve_from_image calls in flight together.
NSolves == 2

---------------------------------------------------------------------------
(* Python values *)

\* Optional[float] = None
NoConf == -1

EmptyDict == [k \in {} |-> <<>>]

\* d[k] = v
DictSet(d, k, v) == [x \in (DOMAIN d) \cup {k} |-> IF x = k THEN v ELSE d[x]]

\* d.get(k, default)
DictGet(d, k, default) == IF k \in DOMAIN d THEN d[k] ELSE default

\* f"{prefix}{str(e)}"
Fmt(prefix, e) == <<prefix>> \o e

\* How a call completes: it returns value, or raises an exception with text exc.
Returned(v) == [kind |-> "return", value |-> v, exc |-> <<>>]
Raised(e)   == [kind |-> "raise", value |-> <<>>, exc |-> e]

\* A call that has not completed yet.
Pending == [kind |-> "pending", value |-> <<>>, exc |-> <<>>]

\* One backend call of a solve: the client called, what was sent, and what the
\* backend did.
Call(to, args, out) == [to |-> to, kind |-> out.kind, args |-> args, out |-> out]

\* str.find(ch): lowest 0-based index of ch, -1 when absent
Find(s, ch) ==
    IF \E i \in 1..Len(s) : s[i] = ch
    THEN (CHOOSE i \in 1..Len(s) : s[i] = ch /\ \A j \in 1..(i-1) : s[j] # ch) - 1
    ELSE -1

\* str.rfind(ch): highest 0-based index of ch, -1 when absent
RFind(s, ch) ==
    IF \E i \in 1..Len(s) : s[i] = ch
    THEN (CHOOSE i \in 1..Len(s) : s[i] = ch /\ \A j \in (i+1)..Len(s) : s[j] # ch) - 1
    ELSE -1

\* s[start:end] losing its last unit (an end index short by one).
Slice_end_short(s, start, end) ==
    LET hi == IF end - 1 > Len(s) THEN Len(s) ELSE end - 1
    IN  IF hi <= start THEN <<>> ELSE SubSeq(s, start + 1, hi)

\* s[start:end] for start >= 0, end >= 0 (0-based, end exclusive, empty when end <= start)
Slice(s, start, end) ==
    LET hi == IF end > Len(s) THEN Len(s) ELSE end
    IN  IF hi <= start THEN <<>> ELSE SubSeq(s, start + 1, hi)

---------------------------------------------------------------------------
(* JSON text: lexical units and json.loads *)

LBrace == "{"
RBrace == "}"
Comma  == ","
Prose  == "Here is the solution:"

M_final_answer == "\"final_answer\":\"x = 5\""
M_confidence95 == "\"confidence\":0.95"
M_confidence0  == "\"confidence\":0.0"
M_type_algebra == "\"problem_type\":\"algebra\""
M_type_error   == "\"problem_type\":\"error\""
M_steps        == "\"solution_steps\":[\"Subtract 5\",\"Divide by 2\"]"
M_method       == "\"method\":\"custom\""
M_confidence150    == "\"confidence\":1.5"
M_confidence_neg   == "\"confidence\":-0.2"
M_difficulty_college == "\"difficulty\":\"college\""
M_difficulty_expert  == "\"difficulty\":\"expert\""
M_difficulty_unknown == "\"difficulty\":\"unknown\""

Members == {M_final_answer, M_confidence95, M_confidence0, M_type_algebra,
            M_type_error, M_steps, M_method, M_confidence150, M_confidence_neg,
            M_difficulty_college, M_difficulty_expert, M_difficulty_unknown}

MemberKey(m) ==
    CASE m = M_final_answer -> "final_answer"
      [] m = M_confidence95 -> "confidence"
      [] m = M_confidence0  -> "confidence"
      [] m = M_type_algebra -> "problem_type"
      [] m = M_type_error   -> "problem_type"
      [] m = M_steps        -> "solution_steps"
      [] m = M_method       -> "method"
      [] m = M_confidence150  -> "confidence"
      [] m = M_confidence_neg -> "confidence"
      [] m = M_difficulty_college -> "difficulty"
      [] m = M_difficulty_expert  -> "difficulty"
      [] m = M_difficulty_unknown -> "difficulty"

MemberValue(m) ==
    CASE m = M_final_answer -> <<"x = 5">>
      [] m = M_confidence95 -> 95
      [] m = M_confidence0  -> 0
      [] m = M_type_algebra -> <<"algebra">>
      [] m = M_type_error   -> <<"error">>
      [] m = M_steps        -> << <<"Subtract 5">>, <<"Divide by 2">> >>
      [] m = M_method       -> <<"custom">>
      [] m = M_confidence150  -> 150
      [] m = M_confidence_neg -> -20
      [] m = M_difficulty_college -> <<"college">>
      [] m = M_difficulty_expert  -> <<"expert">>
      [] m = M_difficulty_unknown -> <<"unknown">>

\* The text between the braces of an object: empty, or members separated by commas.
IsMemberList(s) ==
    \/ Len(s) = 0
    \/ /\ Len(s) % 2 = 1
       /\ \A i \in 1..Len(s) : IF i % 2 = 1 THEN s[i] \in Members ELSE s[i] = Comma

\* A JSON object with scalar or list members (no nested objects).
IsJsonObject(s) ==
    /\ Len(s) >= 2
    /\ s[1] = LBrace
    /\ s[Len(s)] = RBrace
    /\ IsMemberList(SubSeq(s, 2, Len(s) - 1))

RECURSIVE DecodeMembers(_, _)
\* The dict of a member list, a later duplicate key overriding an earlier one.
DecodeMembers(s, d) ==
    IF Len(s) = 0 THEN d
    ELSE DecodeMembers(IF Len(s) >= 2 THEN SubSeq(s, 3, Len(s)) ELSE <<>>,
                       DictSet(d, MemberKey(s[1]), MemberValue(s[1])))

\* json.loads(s): the decoded dict, or json.JSONDecodeError.
JsonLoads(s) ==
    IF IsJsonObject(s)
    THEN [ok |-> TRUE, value |-> DecodeMembers(SubSeq(s, 2, Len(s) - 1), EmptyDict)]
    ELSE [ok |-> FALSE, value |-> EmptyDict]

JSONDecodeError == <<"Expecting value: line 1 column 1 (char 0)">>

---------------------------------------------------------------------------
(* What the reasoning backend does on one generate_content call *)

TextOutcome(t)  == [kind |-> "text",  text |-> t,    err |-> <<>>]
RaiseOutcome(e) == [kind |-> "raise", text |-> <<>>, err |-> e]

TransportError == <<"503 Service Unavailable">>

---------------------------------------------------------------------------
(* math_solution.py: GeminiMathSolver *)

parse_unstructured_response(response_text) ==
    [problem_type     |-> <<"general">>,
     difficulty       |-> <<"unknown">>,
     solution_steps   |-> <<response_text>>,
     final_answer     |-> <<"See solution steps">>,
     explanation      |-> response_text,
     verification     |-> <<"Please verify the solution manually">>,
     study_tips       |-> << <<"Review the complete solution provided">> >>,
     related_concepts |-> <<>>,
     exam_tips        |-> << <<"Practice similar problems">> >>,
     confidence       |-> 70]

\* The error response carrying the fallback parser's confidence.
GeminiMathSolver_error_response_as_answer(e) ==
    [problem_type     |-> <<"unknown">>,
     difficulty       |-> <<"unknown">>,
     solution_steps   |-> << Fmt("Error occurred: ", e) >>,
     final_answer     |-> <<"Unable to solve due to error">>,
     explanation      |-> Fmt("An error occurred while processing: ", e),
     verification     |-> <<"Unable to verify due to error">>,
     study_tips       |-> << <<"Please try again with a clearer image">> >>,
     related_concepts |-> <<>>,
     exam_tips        |-> <<>>,
     confidence       |-> 70]

GeminiMathSolver_error_response(e) ==
    [problem_type     |-> <<"unknown">>,
     difficulty       |-> <<"unknown">>,
     solution_steps   |-> << Fmt("Error occurred: ", e) >>,
     final_answer     |-> <<"Unable to solve due to error">>,
     explanation      |-> Fmt("An error occurred while processing: ", e),
     verification     |-> <<"Unable to verify due to error">>,
     study_tips       |-> << <<"Please try again with a clearer image">> >>,
     related_concepts |-> <<>>,
     exam_tips        |-> <<>>,
     confidence       |-> 0]

GeminiMathSolver_solve_math_problem(out) ==
    IF out.kind = "raise" THEN GeminiMathSolver_error_response(out.err)
    ELSE LET response_text == out.text
             start_idx == Find(response_text, LBrace)
             end_idx   == RFind(response_text, RBrace) + 1
         IN  IF start_idx # -1 /\ end_idx # -1
             THEN LET r == JsonLoads(Slice(response_text, start_idx, end_idx))
                  IN  IF r.ok THEN r.value
                      ELSE parse_unstructured_response(response_text)
             ELSE parse_unstructured_response(response_text)

---------------------------------------------------------------------------
(* simplified_math_solver.py: GeminiVisionSolver *)

GeminiVisionSolver_parse_unstructured_response(response_text) ==
    [extracted_problem |-> <<"Problem extracted from image">>,
     problem_type      |-> <<"general">>,
     difficulty        |-> <<"unknown">>,
     solution_steps    |-> <<response_text>>,
     final_answer      |-> <<"See solution steps above">>,
     explanation       |-> response_text,
     verification      |-> <<"Please verify the solution manually">>,
     study_tips        |-> << <<"Review the complete solution provided">> >>,
     related_concepts  |-> <<>>,
     confidence        |-> 70,
     method            |-> <<"gemini_vision">>]

GeminiVisionSolver_error_response(e) ==
    [extracted_problem |-> <<"Error occurred during processing">>,
     problem_type      |-> <<"error">>,
     difficulty        |-> <<"unknown">>,
     solution_steps    |-> << Fmt("Error occurred: ", e) >>,
     final_answer      |-> <<"Unable to solve due to error">>,
     explanation       |-> Fmt("An error occurred while processing the image: ", e),
     verification      |-> <<"Unable to verify due to error">>,
     study_tips        |-> << <<"Please try again with a clearer image">> >>,
     related_concepts  |-> <<>>,
     confidence        |-> 0,
     method            |-> <<"gemini_vision">>]

\* solve_from_image returning the decoded object without setting its "method".
GeminiVisionSolver_solve_from_image_method_kept(out) ==
    IF out.kind = "raise" THEN GeminiVisionSolver_error_response(out.err)
    ELSE LET response_text == out.text
             start_idx == Find(response_text, LBrace)
             end_idx   == RFind(response_text, RBrace) + 1
         IN  IF start_idx # -1 /\ end_idx # -1
             THEN LET r == JsonLoads(Slice(response_text, start_idx, end_idx))
                  IN  IF r.ok THEN r.value
                      ELSE GeminiVisionSolver_parse_unstructured_response(response_text)
             ELSE GeminiVisionSolver_parse_unstructured_response(response_text)

\* out.kind = "raise" covers Image.open, generate_content and response.text raising.
GeminiVisionSolver_solve_from_image(out) ==
    IF out.kind = "raise" THEN GeminiVisionSolver_error_response(out.err)
    ELSE LET response_text == out.text
             start_idx == Find(response_text, LBrace)
             end_idx   == RFind(response_text, RBrace) + 1
         IN  IF start_idx # -1 /\ end_idx # -1
             THEN LET r == JsonLoads(Slice(response_text, start_idx, end_idx))
                  IN  IF r.ok THEN DictSet(r.value, "method", <<"gemini_vision">>)
                      ELSE GeminiVisionSolver_parse_unstructured_response(response_text)
             ELSE GeminiVisionSolver_parse_unstructured_response(response_text)

---------------------------------------------------------------------------
(* simplified_math_solver.py: GeminiTextSolver *)

GeminiTextSolver_no_json_response(problem_text, response_text) ==
    [extracted_problem |-> problem_text,
     problem_type      |-> <<"general">>,
     difficulty        |-> <<"unknown">>,
     solution_steps    |-> <<response_text>>,
     final_answer      |-> <<"See solution above">>,
     explanation       |-> response_text,
     verification      |-> <<"Please verify manually">>,
     study_tips        |-> << <<"Review the solution provided">> >>,
     related_concepts  |-> <<>>,
     confidence        |-> 70]

GeminiTextSolver_error_response(problem_text, e) ==
    [extracted_problem |-> problem_text,
     problem_type      |-> <<"error">>,
     difficulty        |-> <<"unknown">>,
     solution_steps    |-> << Fmt("Error: ", e) >>,
     final_answer      |-> <<"Unable to solve">>,
     explanation       |-> Fmt("Error occurred: ", e),
     verification      |-> <<"Unable to verify">>,
     study_tips        |-> << <<"Please try again">> >>,
     related_concepts  |-> <<>>,
     confidence        |-> 0]

\* solve_text_problem overwriting the decoded object's confidence with the
\* fallback's 0.7.
GeminiTextSolver_solve_text_problem_rescored(problem_text, out) ==
    IF out.kind = "raise" THEN GeminiTextSolver_error_response(problem_text, out.err)
    ELSE LET response_text == out.text
             start_idx == Find(response_text, LBrace)
             end_idx   == RFind(response_text, RBrace) + 1
         IN  IF start_idx # -1 /\ end_idx # -1
             THEN LET r == JsonLoads(Slice(response_text, start_idx, end_idx))
                  IN  IF r.ok THEN DictSet(r.value, "confidence", 70)
                      ELSE GeminiTextSolver_error_response(problem_text, JSONDecodeError)
             ELSE GeminiTextSolver_no_json_response(problem_text, response_text)

\* json.loads sits directly in the outer try: its JSONDecodeError is caught by
\* "except Exception" like a transport error.
GeminiTextSolver_solve_text_problem(problem_text, out) ==
    IF out.kind = "raise" THEN GeminiTextSolver_error_response(problem_text, out.err)
    ELSE LET response_text == out.text
             start_idx == Find(response_text, LBrace)
             end_idx   == RFind(response_text, RBrace) + 1
         IN  IF start_idx # -1 /\ end_idx # -1
             THEN LET r == JsonLoads(Slice(response_text, start_idx, end_idx))
                  IN  IF r.ok THEN r.value
                      ELSE GeminiTextSolver_error_response(problem_text, JSONDecodeError)
             ELSE GeminiTextSolver_no_json_response(problem_text, response_text)

---------------------------------------------------------------------------
(* math_solution.py: OCRResult and the OCR providers *)

OCRResult(provider, success, text, latex, confidence, error) ==
    [provider |-> provider, success |-> success, text |-> text, latex |-> latex,
     confidence |-> confidence, error |-> error]

\* A primary_result / fallback_result that is None. latex = None and
\* error = None are the empty Text.
None == OCRResult("None", FALSE, <<>>, <<>>, NoConf, <<>>)

\* What the Mathpix endpoint does on one requests.post:
\*   "200"      a response with status 200 whose JSON body is the dict body
\*   "badbody"  a response with status 200 whose body is not JSON: response.json() raises
\*   "non200"   a response with status body.status and text body.text
\*   "raise"    requests.post raises an exception whose str() is body.exc
MathpixOutcome(kind, body) == [kind |-> kind, body |-> body]

\* extract_math reading every response as a 200.
MathpixOCR_extract_math_status_blind(available, out) ==
    IF ~available
    THEN OCRResult("mathpix", FALSE, <<>>, <<>>, NoConf, <<"Mathpix credentials not configured">>)
    ELSE IF out.kind = "raise"
    THEN OCRResult("mathpix", FALSE, <<>>, <<>>, NoConf, out.body.exc)
    ELSE IF out.kind = "badbody"
    THEN OCRResult("mathpix", FALSE, <<>>, <<>>, NoConf, JSONDecodeError)
    ELSE OCRResult("mathpix", TRUE,
                   DictGet(out.body, "text", <<>>),
                   DictGet(out.body, "latex_simplified", <<>>),
                   DictGet(out.body, "confidence", 0),
                   <<>>)

MathpixOCR_extract_math(available, out) ==
    IF ~available
    THEN OCRResult("mathpix", FALSE, <<>>, <<>>, NoConf, <<"Mathpix credentials not configured">>)
    ELSE IF out.kind = "raise"
    THEN OCRResult("mathpix", FALSE, <<>>, <<>>, NoConf, out.body.exc)
    ELSE IF out.kind = "badbody"
    THEN OCRResult("mathpix", FALSE, <<>>, <<>>, NoConf, JSONDecodeError)
    ELSE IF out.kind = "200"
    THEN OCRResult("mathpix", TRUE,
                   DictGet(out.body, "text", <<>>),
                   DictGet(out.body, "latex_simplified", <<>>),
                   DictGet(out.body, "confidence", 0),
                   <<>>)
    ELSE OCRResult("mathpix", FALSE, <<>>, <<>>, NoConf,
                   <<"Mathpix API error: ", out.body.status, " - ">> \o out.body.text)

\* What the Vision endpoint does on one text_detection:
\*   "error"   response.error.message is set to message (a non-empty text)
\*   "texts"   a response with regions text annotations (the first is the whole text)
\*   "raise"   the client raises an exception whose str() is message
VisionOutcome(kind, regions, message) ==
    [kind |-> kind, regions |-> regions, message |-> message]

VisionText == <<"3x - 12 = 9">>

GoogleVisionOCR_extract_math(available, out) ==
    IF ~available
    THEN OCRResult("google_vision", FALSE, <<>>, <<>>, NoConf, <<"Google Vision client not initialized">>)
    ELSE IF out.kind = "raise"
    THEN OCRResult("google_vision", FALSE, <<>>, <<>>, NoConf, out.message)
    ELSE IF out.kind = "error"
    THEN OCRResult("google_vision", FALSE, <<>>, <<>>, NoConf, out.message)
    ELSE IF out.regions > 0
    THEN OCRResult("google_vision", TRUE, VisionText, <<>>,
                   IF out.regions > 1 THEN 85 ELSE 0, <<>>)
    ELSE OCRResult("google_vision", FALSE, <<>>, <<>>, NoConf, <<"No text detected in image">>)

---------------------------------------------------------------------------
(* math_solution.py: MathProblemSolver arbitration *)

\* x or 0.0
OrZero(x) == IF x = NoConf \/ x = 0 THEN 0 ELSE x

\* select_best_ocr_result with "return fallback or primary" as its last line.
select_best_ocr_result_last_failure(primary, fallback) ==
    IF primary = None /\ fallback = None
    THEN OCRResult("none", FALSE, <<>>, <<>>, NoConf, <<"No OCR providers available">>)
    ELSE IF primary # None /\ primary.success
    THEN IF fallback # None /\ fallback.success
         THEN IF OrZero(primary.confidence) >= OrZero(fallback.confidence)
              THEN primary ELSE fallback
         ELSE primary
    ELSE IF fallback # None /\ fallback.success
    THEN fallback
    ELSE IF fallback # None THEN fallback ELSE primary

\* select_best_ocr_result comparing with ">" instead of ">=".
select_best_ocr_result_strict(primary, fallback) ==
    IF primary = None /\ fallback = None
    THEN OCRResult("none", FALSE, <<>>, <<>>, NoConf, <<"No OCR providers available">>)
    ELSE IF primary # None /\ primary.success
    THEN IF fallback # None /\ fallback.success
         THEN IF OrZero(primary.confidence) > OrZero(fallback.confidence)
              THEN primary ELSE fallback
         ELSE primary
    ELSE IF fallback # None /\ fallback.success
    THEN fallback
    ELSE IF primary # None THEN primary ELSE fallback

\* select_best_ocr_result without its "if fallback and fallback.success" branch.
select_best_ocr_result_primary_only(primary, fallback) ==
    IF primary = None /\ fallback = None
    THEN OCRResult("none", FALSE, <<>>, <<>>, NoConf, <<"No OCR providers available">>)
    ELSE IF primary # None /\ primary.success
    THEN IF fallback # None /\ fallback.success
         THEN IF OrZero(primary.confidence) >= OrZero(fallback.confidence)
              THEN primary ELSE fallback
         ELSE primary
    ELSE IF primary # None THEN primary ELSE fallback

select_best_ocr_result(primary, fallback) ==
    IF primary = None /\ fallback = None
    THEN OCRResult("none", FALSE, <<>>, <<>>, NoConf, <<"No OCR providers available">>)
    ELSE IF primary # None /\ primary.success
    THEN IF fallback # None /\ fallback.success
         THEN LET primary_conf  == OrZero(primary.confidence)
                  fallback_conf == OrZero(fallback.confidence)
              IN  IF primary_conf >= fallback_conf THEN primary ELSE fallback
         ELSE primary
    ELSE IF fallback # None /\ fallback.success
    THEN fallback
    ELSE IF primary # None THEN primary ELSE fallback

---------------------------------------------------------------------------
(* math_solution.py: MathProblemSolver *)

\* The solver object after __init__: availability is fixed by the credentials.
MathpixOCR_is_available(s)     == s.mathpix_credentials
GoogleVisionOCR_is_available(s) == s.vision_client

\* image_input: a str path (readable or not), bytes, a BytesIO, or anything else.
ImageInput(type, readable) == [type |-> type, readable |-> readable, text |-> <<>>]

ImageData == <<"image bytes">>

\* extract_math posting the image before it checks is_available().
MathpixOCR_outbound_unguarded(available, out) ==
    <<Call("mathpix", <<ImageData>>, out)>>

\* The outbound calls of one MathpixOCR.extract_math invocation: one
\* requests.post, and none when is_available() is false.
MathpixOCR_outbound(available, out) ==
    IF ~available THEN <<>> ELSE <<Call("mathpix", <<ImageData>>, out)>>

\* The outbound calls of one GoogleVisionOCR invocation (either module): one
\* text_detection, and none when the client is None.
GoogleVisionOCR_outbound(available, out) ==
    IF ~available THEN <<>> ELSE <<Call("google_vision", <<ImageData>>, out)>>

load_image(image_input) ==
    IF image_input.type = "str"
    THEN IF image_input.readable THEN Returned(ImageData)
         ELSE Raised(<<"[Errno 2] No such file or directory: ", "missing.png">>)
    ELSE IF image_input.type = "bytes" THEN Returned(ImageData)
    ELSE IF image_input.type = "BytesIO" THEN Returned(ImageData)
    ELSE Raised(<<"Unsupported image input type: ", "<class 'int'>">>)

\* _perform_ocr without its final else branch: a preferred provider that is
\* unavailable is not replaced by the other one.
perform_ocr_primary_preferred_only(s) ==
    IF s.preferred_ocr = "mathpix" /\ MathpixOCR_is_available(s) THEN "mathpix"
    ELSE IF s.preferred_ocr = "google_vision" /\ GoogleVisionOCR_is_available(s)
    THEN "google_vision"
    ELSE IF s.preferred_ocr = "both"
    THEN IF MathpixOCR_is_available(s) THEN "mathpix" ELSE "none"
    ELSE "none"

\* _perform_ocr, first half: the provider whose result becomes primary_result.
perform_ocr_primary(s) ==
    IF s.preferred_ocr = "mathpix" /\ MathpixOCR_is_available(s) THEN "mathpix"
    ELSE IF s.preferred_ocr = "google_vision" /\ GoogleVisionOCR_is_available(s)
    THEN "google_vision"
    ELSE IF s.preferred_ocr = "both"
    THEN IF MathpixOCR_is_available(s) THEN "mathpix" ELSE "none"
    ELSE IF MathpixOCR_is_available(s) THEN "mathpix"
    ELSE IF GoogleVisionOCR_is_available(s) THEN "google_vision"
    ELSE "none"

\* _perform_ocr calling the other provider after a preferred one whatever the
\* preferred one returned.
perform_ocr_fallback_eager(s, primary) ==
    IF s.preferred_ocr = "mathpix" /\ MathpixOCR_is_available(s)
    THEN IF GoogleVisionOCR_is_available(s) THEN "google_vision" ELSE "none"
    ELSE IF s.preferred_ocr = "google_vision" /\ GoogleVisionOCR_is_available(s)
    THEN IF MathpixOCR_is_available(s) THEN "mathpix" ELSE "none"
    ELSE IF s.preferred_ocr = "both"
    THEN IF GoogleVisionOCR_is_available(s) THEN "google_vision" ELSE "none"
    ELSE "none"

\* _perform_ocr skipping Google Vision under BOTH once Mathpix has succeeded.
perform_ocr_fallback_short_circuit(s, primary) ==
    IF s.preferred_ocr = "mathpix" /\ MathpixOCR_is_available(s)
    THEN IF ~primary.success /\ GoogleVisionOCR_is_available(s) THEN "google_vision" ELSE "none"
    ELSE IF s.preferred_ocr = "google_vision" /\ GoogleVisionOCR_is_available(s)
    THEN IF ~primary.success /\ MathpixOCR_is_available(s) THEN "mathpix" ELSE "none"
    ELSE IF s.preferred_ocr = "both"
    THEN IF ~primary.success /\ GoogleVisionOCR_is_available(s) THEN "google_vision" ELSE "none"
    ELSE "none"

\* _perform_ocr, second half: the provider whose result becomes fallback_result.
perform_ocr_fallback(s, primary) ==
    IF s.preferred_ocr = "mathpix" /\ MathpixOCR_is_available(s)
    THEN IF ~primary.success /\ GoogleVisionOCR_is_available(s) THEN "google_vision" ELSE "none"
    ELSE IF s.preferred_ocr = "google_vision" /\ GoogleVisionOCR_is_available(s)
    THEN IF ~primary.success /\ MathpixOCR_is_available(s) THEN "mathpix" ELSE "none"
    ELSE IF s.preferred_ocr = "both"
    THEN IF GoogleVisionOCR_is_available(s) THEN "google_vision" ELSE "none"
    ELSE "none"

Difficulties == {"elementary", "middle_school", "high_school", "college", "advanced"}

\* difficulty_map.get(key, MathDifficulty.HIGH_SCHOOL)
difficulty_map_get(key) ==
    IF Len(key) = 1 /\ key[1] \in Difficulties THEN key[1] ELSE "high_school"

\* The success path reporting the selected OCR result's confidence whatever the
\* reasoning dictionary holds.
MathProblemSolver_result_ocr_confidence(best_ocr_result, solution_data) ==
    [extracted_text    |-> best_ocr_result.text,
     extracted_latex   |-> best_ocr_result.latex,
     problem_type      |-> DictGet(solution_data, "problem_type", <<"unknown">>),
     difficulty        |-> difficulty_map_get(DictGet(solution_data, "difficulty", <<"unknown">>)),
     solution_steps    |-> DictGet(solution_data, "solution_steps", <<>>),
     final_answer      |-> DictGet(solution_data, "final_answer", <<>>),
     explanation       |-> DictGet(solution_data, "explanation", <<>>),
     verification      |-> DictGet(solution_data, "verification", <<>>),
     study_tips        |-> DictGet(solution_data, "study_tips", <<>>)
                              \o DictGet(solution_data, "exam_tips", <<>>),
     related_concepts  |-> DictGet(solution_data, "related_concepts", <<>>),
     ocr_provider_used |-> best_ocr_result.provider,
     confidence_score  |-> OrZero(best_ocr_result.confidence)]

\* The MathSolutionResult of the success path (processing_time is not modelled).
MathProblemSolver_result(best_ocr_result, solution_data) ==
    [extracted_text    |-> best_ocr_result.text,
     extracted_latex   |-> best_ocr_result.latex,
     problem_type      |-> DictGet(solution_data, "problem_type", <<"unknown">>),
     difficulty        |-> difficulty_map_get(DictGet(solution_data, "difficulty", <<"unknown">>)),
     solution_steps    |-> DictGet(solution_data, "solution_steps", <<>>),
     final_answer      |-> DictGet(solution_data, "final_answer", <<>>),
     explanation       |-> DictGet(solution_data, "explanation", <<>>),
     verification      |-> DictGet(solution_data, "verification", <<>>),
     study_tips        |-> DictGet(solution_data, "study_tips", <<>>)
                              \o DictGet(solution_data, "exam_tips", <<>>),
     related_concepts  |-> DictGet(solution_data, "related_concepts", <<>>),
     ocr_provider_used |-> best_ocr_result.provider,
     confidence_score  |-> DictGet(solution_data, "confidence",
                                   OrZero(best_ocr_result.confidence))]

\* The MathSolutionResult built by "except Exception as e".
MathProblemSolver_error_result(e) ==
    [extracted_text    |-> <<>>,
     extracted_latex   |-> <<>>,
     problem_type      |-> <<"error">>,
     difficulty        |-> "high_school",
     solution_steps    |-> << Fmt("Error occurred: ", e) >>,
     final_answer      |-> <<"Unable to solve">>,
     explanation       |-> Fmt("An error occurred while processing the image: ", e),
     verification      |-> <<"Unable to verify">>,
     study_tips        |-> << <<"Please try with a clearer image">>,
                              <<"Ensure the image contains mathematical content">> >>,
     related_concepts  |-> <<>>,
     ocr_provider_used |-> "error",
     confidence_score  |-> 0]

\* solve_from_image's handler without its return: the exception leaves the call.
MathProblemSolver_reraise(e) == Raised(e)

\* solve_from_image's "except Exception as e": the call returns the error result.
MathProblemSolver_except(e) == Returned(MathProblemSolver_error_result(e))

\* solve_from_image without "if not best_ocr_result.success: raise".
MathProblemSolver_reason_unchecked(best_ocr_result, out) ==
    Returned(MathProblemSolver_result(best_ocr_result,
                                      GeminiMathSolver_solve_math_problem(out)))

\* solve_from_image from "if not best_ocr_result.success" to its return, given
\* what the reasoning backend does when it is called.
MathProblemSolver_reason(best_ocr_result, out) ==
    IF ~best_ocr_result.success
    THEN MathProblemSolver_except(Fmt("OCR failed: ", best_ocr_result.error))
    ELSE Returned(MathProblemSolver_result(best_ocr_result,
                                           GeminiMathSolver_solve_math_problem(out)))

\* solve_from_image calling the reasoning backend whatever arbitration selected.
MathProblemSolver_reasoning_calls_unchecked(best_ocr_result, out) ==
    <<Call("gemini", <<best_ocr_result.text, best_ocr_result.latex>>, out)>>

\* The reasoning call solve_from_image makes after arbitration: none when the
\* selected result is a failure, else one with the selected text and latex.
MathProblemSolver_reasoning_calls(best_ocr_result, out) ==
    IF ~best_ocr_result.success THEN <<>>
    ELSE <<Call("gemini", <<best_ocr_result.text, best_ocr_result.latex>>, out)>>

---------------------------------------------------------------------------
(* simplified_math_solver.py: GoogleVisionOCR and MathProblemSolver *)

Simplified_GoogleVisionOCR_extract_text(available, out) ==
    IF ~available
    THEN [success |-> FALSE, text |-> <<>>, error |-> <<"Google Vision client not initialized">>]
    ELSE IF out.kind = "raise"
    THEN [success |-> FALSE, text |-> <<>>, error |-> out.message]
    ELSE IF out.kind = "error"
    THEN [success |-> FALSE, text |-> <<>>, error |-> out.message]
    ELSE IF out.regions > 0
    THEN [success |-> TRUE, text |-> VisionText, confidence |-> 85]
    ELSE [success |-> FALSE, text |-> <<>>, error |-> <<"No text detected in image">>]

\* _solve_with_vision_ocr_fallback; vision_ocr is None when the solver was
\* constructed without the fallback.
Simplified_solve_with_vision_ocr_fallback(s, ocr_out, text_out) ==
    IF ~s.vision_ocr \/ ~GoogleVisionOCR_is_available(s)
    THEN Raised(<<"Vision OCR fallback not available">>)
    ELSE LET ocr_result == Simplified_GoogleVisionOCR_extract_text(TRUE, ocr_out)
         IN  IF ~ocr_result.success
             THEN Raised(Fmt("OCR failed: ", ocr_result.error))
             ELSE LET result == GeminiTextSolver_solve_text_problem(ocr_result.text, text_out)
                  IN  Returned(DictSet(DictSet(result, "method", <<"vision_ocr_gemini">>),
                                       "extracted_problem", ocr_result.text))

\* The MathSolutionResult of the success path (processing_time is not modelled).
Simplified_result(solution_data) ==
    [extracted_text   |-> DictGet(solution_data, "extracted_problem", <<>>),
     problem_type     |-> DictGet(solution_data, "problem_type", <<"unknown">>),
     difficulty       |-> difficulty_map_get(DictGet(solution_data, "difficulty", <<"high_school">>)),
     solution_steps   |-> DictGet(solution_data, "solution_steps", <<>>),
     final_answer     |-> DictGet(solution_data, "final_answer", <<>>),
     explanation      |-> DictGet(solution_data, "explanation", <<>>),
     verification     |-> DictGet(solution_data, "verification", <<>>),
     study_tips       |-> DictGet(solution_data, "study_tips", <<>>),
     related_concepts |-> DictGet(solution_data, "related_concepts", <<>>),
     confidence_score |-> DictGet(solution_data, "confidence", 0),
     method_used      |-> DictGet(solution_data, "method", <<"gemini_vision">>)]

Simplified_error_result(e) ==
    [extracted_text   |-> <<>>,
     problem_type     |-> <<"error">>,
     difficulty       |-> "high_school",
     solution_steps   |-> << Fmt("Error occurred: ", e) >>,
     final_answer     |-> <<"Unable to solve">>,
     explanation      |-> Fmt("An error occurred while processing the image: ", e),
     verification     |-> <<"Unable to verify">>,
     study_tips       |-> << <<"Please try with a clearer image">>,
                             <<"Ensure the image contains mathematical content">> >>,
     related_concepts |-> <<>>,
     confidence_score |-> 0,
     method_used      |-> <<"error">>]

\* self.gemini_vision.solve_from_image as the orchestrator sees it: the client
\* catches every Exception itself, so the call always returns a dict.
GeminiVisionSolver_call(vision_out) ==
    Returned(GeminiVisionSolver_solve_from_image(vision_out))

\* The inner try/except of solve_from_image: the vision-direct call, and on an
\* exception of it the Vision OCR fallback (or the exception again).
Simplified_primary_or_fallback(s, vision_out, ocr_out, text_out) ==
    LET direct == GeminiVisionSolver_call(vision_out)
    IN  IF direct.kind = "raise"
        THEN IF s.use_vision_ocr_fallback
             THEN Simplified_solve_with_vision_ocr_fallback(s, ocr_out, text_out)
             ELSE Raised(direct.exc)
        ELSE direct

\* The backend calls solve_from_image makes, in order.
Simplified_calls(s, image_input, vision_out, ocr_out, text_out) ==
    IF load_image(image_input).kind = "raise" THEN <<>>
    ELSE <<Call("gemini_vision", <<ImageData>>, vision_out)>>
         \o (IF GeminiVisionSolver_call(vision_out).kind = "raise"
                /\ s.use_vision_ocr_fallback /\ GoogleVisionOCR_is_available(s)
             THEN <<Call("google_vision", <<ImageData>>, ocr_out)>>
                  \o (IF Simplified_GoogleVisionOCR_extract_text(TRUE, ocr_out).success
                      THEN <<Call("gemini_text", <<VisionText>>, text_out)>>
                      ELSE <<>>)
             ELSE <<>>)

Simplified_MathProblemSolver_solve_from_image(s, image_input, vision_out, ocr_out, text_out) ==
    LET loaded == load_image(image_input)
        body == IF loaded.kind = "raise" THEN loaded
                ELSE Simplified_primary_or_fallback(s, vision_out, ocr_out, text_out)
    IN  IF body.kind = "raise"
        THEN Returned(Simplified_error_result(body.exc))
        ELSE Returned(Simplified_result(body.value))

---------------------------------------------------------------------------
(* Construction: the process environment and the __init__ methods *)

\* What the constructors read: the two Mathpix variables, the two reasoning
\* keys, and the Vision credentials:
\*   "none"      no credentials file and no application default credentials
\*   "adc"       no credentials file; application default credentials exist
\*   "file"      GOOGLE_CLOUD_VISION_CREDENTIALS_PATH names a service account file
\*   "bad_file"  it names an existing file that is not a service account key
Environs ==
    [MATHPIX_APP_ID : BOOLEAN, MATHPIX_APP_KEY : BOOLEAN,
     vision : {"none", "adc", "file", "bad_file"},
     GEMINI_API_KEY : BOOLEAN, GOOGLE_API_KEY : BOOLEAN]

\* bool(self.app_id and self.app_key), cached by MathpixOCR.__init__
MathpixOCR_init(env) == env.MATHPIX_APP_ID /\ env.MATHPIX_APP_KEY

\* GoogleVisionOCR.__init__ without the try/except of _initialize_client.
GoogleVisionOCR_init_uncaught(env) ==
    IF env.vision \in {"adc", "file"} THEN Returned(TRUE)
    ELSE IF env.vision = "bad_file"
    THEN Raised(<<"Service account info was not in the expected format">>)
    ELSE Raised(<<"Your default credentials were not found.">>)

\* GoogleVisionOCR.__init__: whether self.client is set; _initialize_client
\* catches every exception and leaves it None.
GoogleVisionOCR_init(env) ==
    IF env.vision \in {"adc", "file"} THEN Returned(TRUE) ELSE Returned(FALSE)

GeminiMathSolver_init(env) ==
    IF env.GEMINI_API_KEY THEN Returned(TRUE)
    ELSE Raised(<<"GEMINI_API_KEY not found in environment variables">>)

\* GeminiVisionSolver.__init__ and GeminiTextSolver.__init__
GeminiVisionSolver_init(env) ==
    IF env.GEMINI_API_KEY \/ env.GOOGLE_API_KEY THEN Returned(TRUE)
    ELSE Raised(<<"GEMINI_API_KEY or GOOGLE_API_KEY not found in environment variables">>)

\* The solver object: vision_ocr says whether a GoogleVisionOCR was constructed.
Solver(module, preferred_ocr, mathpix, vision_ocr, vision_client, use_fallback) ==
    [module |-> module, preferred_ocr |-> preferred_ocr, mathpix_credentials |-> mathpix,
     vision_ocr |-> vision_ocr, vision_client |-> vision_client,
     use_vision_ocr_fallback |-> use_fallback]

\* math_solution.MathProblemSolver.__init__
MathProblemSolver_init(env, preferred_ocr) ==
    LET mathpix == MathpixOCR_init(env)
        vis == GoogleVisionOCR_init(env)
        gem == GeminiMathSolver_init(env)
    IN  IF vis.kind = "raise" THEN vis
        ELSE IF gem.kind = "raise" THEN gem
        ELSE Returned(Solver("math_solution", preferred_ocr, mathpix, TRUE, vis.value, FALSE))

\* simplified_math_solver.MathProblemSolver.__init__ constructing the Vision
\* OCR client whatever use_vision_ocr_fallback says.
Simplified_MathProblemSolver_init_always_ocr(env, use_vision_ocr_fallback) ==
    LET gem == GeminiVisionSolver_init(env)
        vis == GoogleVisionOCR_init(env)
    IN  IF gem.kind = "raise" THEN gem
        ELSE IF vis.kind = "raise" THEN vis
        ELSE Returned(Solver("simplified", "none", FALSE, TRUE, vis.value,
                             use_vision_ocr_fallback))

\* simplified_math_solver.MathProblemSolver.__init__
Simplified_MathProblemSolver_init(env, use_vision_ocr_fallback) ==
    LET gem == GeminiVisionSolver_init(env)
        vis == GoogleVisionOCR_init(env)
    IN  IF gem.kind = "raise" THEN gem
        ELSE IF ~use_vision_ocr_fallback
        THEN Returned(Solver("simplified", "none", FALSE, FALSE, FALSE, FALSE))
        ELSE IF vis.kind = "raise" THEN vis
        ELSE Returned(Solver("simplified", "none", FALSE, TRUE, vis.value, TRUE))

\* GeminiTextSolver.__init__
GeminiTextSolver_init(env) ==
    LET gem == GeminiVisionSolver_init(env)
    IN  IF gem.kind = "raise" THEN gem
        ELSE Returned(Solver("text", "none", FALSE, FALSE, FALSE, FALSE))

\* The constructor calls a caller can make.
ConstructorCalls ==
    {[module |-> "math_solution", preferred_ocr |-> p, use_vision_ocr_fallback |-> FALSE] :
        p \in {"mathpix", "google_vision", "both"}}
    \cup {[module |-> "simplified", preferred_ocr |-> "none", use_vision_ocr_fallback |-> u] :
        u \in BOOLEAN}
    \cup {[module |-> "text", preferred_ocr |-> "none", use_vision_ocr_fallback |-> FALSE]}

RunConstructor(env, c) ==
    CASE c.module = "math_solution" -> MathProblemSolver_init(env, c.preferred_ocr)
      [] c.module = "simplified" ->
            Simplified_MathProblemSolver_init(env, c.use_vision_ocr_fallback)
      [] c.module = "text" -> GeminiTextSolver_init(env)

\* No solver object: before construction, or after a constructor raised.
NoSolver(module) == Solver(module, "none", FALSE, FALSE, FALSE, FALSE)

---------------------------------------------------------------------------
(* Backend behaviours the OCR calls are checked against *)

MathpixText  == <<"Solve for x: 2x + 5 = 15">>
MathpixLatex == <<"2x + 5 = 15">>

\* JSON bodies of a 200 response: confidence reported (also outside [0,1]),
\* null, or missing; text missing; the empty object.
MathpixBodies ==
    {[text |-> MathpixText, latex_simplified |-> MathpixLatex, confidence |-> c] :
        c \in {NoConf, -20, 0, 50, 85, 95, 150}}
    \cup {[text |-> MathpixText, latex_simplified |-> MathpixLatex],
          [confidence |-> 85],
          EmptyDict}

\* str(e) of the exceptions a backend call raises; an exception constructed
\* without a message has the empty str().
ExceptionTexts == {<<"Read timed out. (read timeout=30)">>, <<"503 Deadline Exceeded">>, <<>>}

MathpixOutcomes ==
    {MathpixOutcome("200", b) : b \in MathpixBodies}
    \cup {MathpixOutcome("badbody", EmptyDict)}
    \cup {MathpixOutcome("non200", [status |-> "500", text |-> <<"Internal Server Error">>]),
          MathpixOutcome("non200", [status |-> "401", text |-> <<>>])}
    \cup {MathpixOutcome("raise", [exc |-> e]) : e \in ExceptionTexts}

VisionOutcomes ==
    {VisionOutcome("texts", n, <<>>) : n \in 0..MaxRegions}
    \cup {VisionOutcome("error", 0, <<"Bad image data">>)}
    \cup {VisionOutcome("raise", 0, e) : e \in ExceptionTexts}

\* Every OCRResult each provider can return.
MathpixResults == {MathpixOCR_extract_math(a, out) : a \in BOOLEAN, out \in MathpixOutcomes}
VisionResults  == {GoogleVisionOCR_extract_math(a, out) : a \in BOOLEAN, out \in VisionOutcomes}

---------------------------------------------------------------------------
(* SpecParse: each reasoning client applied to every bounded backend output *)

ScenarioAText == <<"Solve for x: 2x + 5 = 15">>

Clients == {"GeminiMathSolver", "GeminiVisionSolver", "GeminiTextSolver"}

\* The lexical units raw outputs are drawn from.
Alphabet == {LBrace, RBrace, Comma, Prose, M_final_answer, M_confidence95}

RawTexts == UNION {[1..n -> Alphabet] : n \in 0..MaxLen}

ReasoningOutcomes == {TextOutcome(t) : t \in RawTexts} \cup {RaiseOutcome(TransportError)}

RunClient(c, out) ==
    CASE c = "GeminiMathSolver"   -> GeminiMathSolver_solve_math_problem(out)
      [] c = "GeminiVisionSolver" -> GeminiVisionSolver_solve_from_image(out)
      [] c = "GeminiTextSolver"   -> GeminiTextSolver_solve_text_problem(ScenarioAText, out)

ParseOff ==
    /\ client = "none"
    /\ backend_out = <<>>
    /\ parsed = <<>>
    /\ ppc = "off"

SolveOff ==
    /\ environ = <<>>
    /\ solver = <<>>
    /\ pc = "off"
    /\ input = <<>>
    /\ primary_result = <<>>
    /\ fallback_result = <<>>
    /\ calls = <<>>
    /\ ret = <<>>
    /\ last = <<>>

SelectOff ==
    /\ sel_primary = <<>>
    /\ sel_fallback = <<>>
    /\ sel_best = <<>>
    /\ spc = "off"

OcrOff ==
    /\ ocr_provider = "none"
    /\ ocr_available = FALSE
    /\ provider_out = <<>>
    /\ provider_result = <<>>
    /\ provider_calls = <<>>
    /\ opc = "off"

EntryOff ==
    /\ entry = <<>>
    /\ running_loop = FALSE
    /\ async_ret = <<>>
    /\ sync_ret = <<>>

ConcOff ==
    /\ conc_shared = FALSE
    /\ conc_solver = <<>>
    /\ conc_in = <<>>
    /\ conc_frame = <<>>
    /\ conc_pc = <<>>
    /\ conc_ret = <<>>
    /\ conc_overlap = FALSE

InitParse ==
    /\ client \in Clients
    /\ backend_out \in ReasoningOutcomes
    /\ parsed = EmptyDict
    /\ ppc = "call"
    /\ SelectOff
    /\ SolveOff
    /\ OcrOff
    /\ EntryOff
    /\ ConcOff

ClientCall ==
    /\ ppc = "call"
    /\ parsed' = RunClient(client, backend_out)
    /\ ppc' = "done"
    /\ UNCHANGED <<client, backend_out, select_vars, solve_vars, ocr_vars, entry_vars, conc_vars>>

NextParse == ClientCall

SpecParse == InitParse /\ [][NextParse]_vars

---------------------------------------------------------------------------
(* SpecSelect: arbitration applied to every pair the two providers can return *)

\* primary and fallback come from different providers; either may be None.
SelectPairs ==
    {<<p, f>> : p \in MathpixResults \cup {None}, f \in VisionResults \cup {None}}
    \cup {<<p, f>> : p \in VisionResults \cup {None}, f \in MathpixResults \cup {None}}

InitSelect ==
    /\ \E pair \in SelectPairs : sel_primary = pair[1] /\ sel_fallback = pair[2]
    /\ sel_best = None
    /\ spc = "call"
    /\ ParseOff
    /\ SolveOff
    /\ OcrOff
    /\ EntryOff
    /\ ConcOff

SelectCall ==
    /\ spc = "call"
    /\ sel_best' = select_best_ocr_result(sel_primary, sel_fallback)
    /\ spc' = "done"
    /\ UNCHANGED <<sel_primary, sel_fallback, parse_vars, solve_vars, ocr_vars, entry_vars, conc_vars>>

NextSelect == SelectCall

SpecSelect == InitSelect /\ [][NextSelect]_vars

---------------------------------------------------------------------------
(* SpecOcr: each OCR provider method applied to every backend behaviour *)

OcrProviders == {"MathpixOCR.extract_math", "GoogleVisionOCR.extract_math",
                 "GoogleVisionOCR.extract_text"}

OcrOutcomes(p) == IF p = "MathpixOCR.extract_math" THEN MathpixOutcomes ELSE VisionOutcomes

\* The outbound calls the provider method makes.
ProviderOutbound(p, available, out) ==
    IF p = "MathpixOCR.extract_math" THEN MathpixOCR_outbound(available, out)
    ELSE GoogleVisionOCR_outbound(available, out)

RunProvider(p, available, out) ==
    CASE p = "MathpixOCR.extract_math"      -> MathpixOCR_extract_math(available, out)
      [] p = "GoogleVisionOCR.extract_math" -> GoogleVisionOCR_extract_math(available, out)
      [] p = "GoogleVisionOCR.extract_text" -> Simplified_GoogleVisionOCR_extract_text(available, out)

InitOcr ==
    /\ ocr_provider \in OcrProviders
    /\ ocr_available \in BOOLEAN
    /\ provider_out \in OcrOutcomes(ocr_provider)
    /\ provider_result = Pending
    /\ provider_calls = <<>>
    /\ opc = "call"
    /\ ParseOff
    /\ SelectOff
    /\ SolveOff
    /\ EntryOff
    /\ ConcOff

ProviderCall ==
    /\ opc = "call"
    /\ provider_result' = Returned(RunProvider(ocr_provider, ocr_available, provider_out))
    /\ provider_calls' = ProviderOutbound(ocr_provider, ocr_available, provider_out)
    /\ opc' = "done"
    /\ UNCHANGED <<ocr_provider, ocr_available, provider_out, parse_vars, select_vars, solve_vars, entry_vars, conc_vars>>

NextOcr == ProviderCall

SpecOcr == InitOcr /\ [][NextOcr]_vars

---------------------------------------------------------------------------
(* Spec: one constructed solver serving solve calls one after the other *)

\* The solver objects the constructors can return.
Solvers ==
    {RunConstructor(env, c).value :
        <<env, c>> \in {x \in Environs \X ConstructorCalls :
                            RunConstructor(x[1], x[2]).kind = "return"}}

ImageInputs ==
    {ImageInput("bytes", TRUE), ImageInput("BytesIO", TRUE), ImageInput("str", TRUE),
     ImageInput("str", FALSE), ImageInput("int", FALSE)}

TextInputs == {[type |-> "text", readable |-> TRUE, text |-> t] : t \in {ScenarioAText, VisionText}}

NoInput == [type |-> "none", readable |-> FALSE, text |-> <<>>]

\* Raw outputs the reasoning backend is checked with inside the pipelines.
ReasoningSamples ==
    {TextOutcome(t) : t \in
        { <<LBrace, M_final_answer, Comma, M_steps, Comma, M_confidence95, RBrace>>,
          <<Prose, LBrace, M_type_algebra, Comma, M_confidence95, RBrace, Prose>>,
          <<LBrace, M_type_algebra, Comma, M_confidence0, RBrace>>,
          <<LBrace, M_final_answer, RBrace>>,
          <<LBrace, M_type_error, Comma, M_confidence95, RBrace>>,
          <<LBrace, M_method, Comma, M_confidence95, RBrace>>,
          <<LBrace, M_final_answer, Comma, M_difficulty_college, RBrace>>,
          <<LBrace, M_final_answer, Comma, M_difficulty_expert, RBrace>>,
          <<LBrace, M_difficulty_unknown, Comma, M_confidence150, RBrace>>,
          <<LBrace, M_final_answer, Comma, M_confidence_neg, RBrace>>,
          <<Prose>>,
          <<LBrace, Prose, RBrace>>,
          <<LBrace, M_final_answer>> }}
    \cup {RaiseOutcome(TransportError)}

\* No solve_text_problem call has completed yet.
NoLast == [input |-> NoInput, calls |-> <<>>, ret |-> Pending]

Init ==
    /\ environ \in Environs
    /\ solver = NoSolver("none")
    /\ pc = "Unconstructed"
    /\ input = NoInput
    /\ primary_result = None
    /\ fallback_result = None
    /\ calls = <<>>
    /\ ret = Pending
    /\ last = NoLast
    /\ ParseOff
    /\ SelectOff
    /\ OcrOff
    /\ EntryOff
    /\ ConcOff

\* A constructor call: the solver object, or the exception the constructor
\* raised (the module asked for is kept for the record).
Construct ==
    /\ pc = "Unconstructed"
    /\ \E c \in ConstructorCalls :
          LET done == RunConstructor(environ, c)
          IN  IF done.kind = "return"
              THEN /\ solver' = done.value
                   /\ pc' = "Idle"
                   /\ ret' = ret
              ELSE /\ solver' = NoSolver(c.module)
                   /\ pc' = "ConstructionFailed"
                   /\ ret' = done
    /\ UNCHANGED <<environ, input, primary_result, fallback_result, calls, last,
                   parse_vars, select_vars, ocr_vars, entry_vars, conc_vars>>

\* math_solution solve_from_image, up to the first OCR call: load the image.
LoadImage ==
    /\ pc = "Idle"
    /\ solver.module = "math_solution"
    /\ \E image_input \in ImageInputs :
          /\ input' = image_input
          /\ IF load_image(image_input).kind = "raise"
             THEN /\ ret' = MathProblemSolver_except(load_image(image_input).exc)
                  /\ pc' = "Done"
             ELSE /\ ret' = ret
                  /\ pc' = "ExtractionInProgress"
    /\ UNCHANGED <<environ, solver, last, primary_result, fallback_result, calls, parse_vars, select_vars, ocr_vars, entry_vars, conc_vars>>

\* One OCR call of provider by the orchestrator: the result and the call logged.
OcrCall(provider, result, log) ==
    IF provider = "mathpix"
    THEN \E out \in MathpixOutcomes :
            /\ result' = MathpixOCR_extract_math(MathpixOCR_is_available(solver), out)
            /\ log' = log \o MathpixOCR_outbound(MathpixOCR_is_available(solver), out)
    ELSE IF provider = "google_vision"
    THEN \E out \in VisionOutcomes :
            /\ result' = GoogleVisionOCR_extract_math(GoogleVisionOCR_is_available(solver), out)
            /\ log' = log \o GoogleVisionOCR_outbound(GoogleVisionOCR_is_available(solver), out)
    ELSE result' = result /\ log' = log

\* _perform_ocr, first half.
OcrPrimary ==
    /\ pc = "ExtractionInProgress"
    /\ OcrCall(perform_ocr_primary(solver), primary_result, calls)
    /\ pc' = "PrimaryDone"
    /\ UNCHANGED <<environ, solver, last, input, fallback_result, ret, parse_vars, select_vars, ocr_vars, entry_vars, conc_vars>>

\* _perform_ocr, second half.
OcrFallback ==
    /\ pc = "PrimaryDone"
    /\ OcrCall(perform_ocr_fallback(solver, primary_result), fallback_result, calls)
    /\ pc' = "ExtractionDone"
    /\ UNCHANGED <<environ, solver, last, input, primary_result, ret, parse_vars, select_vars, ocr_vars, entry_vars, conc_vars>>

\* Arbitration, the reasoning call and the assembly of the result.
Reason ==
    /\ pc = "ExtractionDone"
    /\ LET best_ocr_result == select_best_ocr_result(primary_result, fallback_result)
       IN  IF ~best_ocr_result.success
           THEN /\ ret' = MathProblemSolver_reason(best_ocr_result, RaiseOutcome(<<>>))
                /\ calls' = calls \o MathProblemSolver_reasoning_calls(
                                        best_ocr_result, RaiseOutcome(<<>>))
           ELSE \E out \in ReasoningSamples :
                   /\ ret' = MathProblemSolver_reason(best_ocr_result, out)
                   /\ calls' = calls \o MathProblemSolver_reasoning_calls(best_ocr_result, out)
    /\ pc' = "Done"
    /\ UNCHANGED <<environ, solver, last, input, primary_result, fallback_result, parse_vars, select_vars, ocr_vars, entry_vars, conc_vars>>

\* The outcome of a backend that the solve does not call.
NotCalled == [kind |-> "not called"]

\* solve_from_image of simplified_math_solver for one choice of what each
\* backend does when it is called.
VisionDirectStep(image_input, vision_out, ocr_out, text_out) ==
    /\ input' = image_input
    /\ ret' = Simplified_MathProblemSolver_solve_from_image(
                  solver, image_input, vision_out, ocr_out, text_out)
    /\ calls' = Simplified_calls(solver, image_input, vision_out, ocr_out, text_out)

\* simplified_math_solver solve_from_image, the whole call: the OCR and text
\* backends are consulted only on the path that calls them.
VisionDirectSolve ==
    /\ pc = "Idle"
    /\ solver.module = "simplified"
    /\ \E image_input \in ImageInputs, vision_out \in ReasoningSamples :
          IF /\ load_image(image_input).kind = "return"
             /\ GeminiVisionSolver_call(vision_out).kind = "raise"
             /\ solver.use_vision_ocr_fallback
          THEN \E ocr_out \in VisionOutcomes, text_out \in ReasoningSamples :
                  VisionDirectStep(image_input, vision_out, ocr_out, text_out)
          ELSE VisionDirectStep(image_input, vision_out, NotCalled, NotCalled)
    /\ pc' = "Done"
    /\ UNCHANGED <<environ, solver, last, primary_result, fallback_result, parse_vars, select_vars, ocr_vars, entry_vars, conc_vars>>

\* solve_text_problem writing to the solver object it is called on.
TextSolve_writing_self ==
    /\ pc = "Idle"
    /\ solver.module = "text"
    /\ \E text_input \in TextInputs, out \in ReasoningSamples :
          /\ input' = text_input
          /\ ret' = Returned(GeminiTextSolver_solve_text_problem(text_input.text, out))
          /\ calls' = <<Call("gemini_text", <<text_input.text>>, out)>>
          /\ solver' = [solver EXCEPT !.vision_client = (out.kind = "raise")]
    /\ pc' = "Done"
    /\ UNCHANGED <<environ, last, primary_result, fallback_result, parse_vars, select_vars, ocr_vars, entry_vars, conc_vars>>

\* GeminiTextSolver.solve_text_problem, the whole call.
TextSolve ==
    /\ pc = "Idle"
    /\ solver.module = "text"
    /\ \E text_input \in TextInputs, out \in ReasoningSamples :
          /\ input' = text_input
          /\ ret' = Returned(GeminiTextSolver_solve_text_problem(text_input.text, out))
          /\ calls' = <<Call("gemini_text", <<text_input.text>>, out)>>
    /\ pc' = "Done"
    /\ UNCHANGED <<environ, solver, last, primary_result, fallback_result, parse_vars, select_vars, ocr_vars, entry_vars, conc_vars>>

\* The caller takes the result; the solver is ready for the next call.
Finish ==
    /\ pc = "Done"
    /\ pc' = "Idle"
    /\ input' = NoInput
    /\ primary_result' = None
    /\ fallback_result' = None
    /\ calls' = <<>>
    /\ ret' = Pending
    /\ last' = IF solver.module = "text"
               THEN [input |-> input, calls |-> calls, ret |-> ret]
               ELSE last
    /\ UNCHANGED <<environ, solver, parse_vars, select_vars, ocr_vars, entry_vars, conc_vars>>

Next ==
    \/ Construct
    \/ LoadImage
    \/ OcrPrimary
    \/ OcrFallback
    \/ Reason
    \/ VisionDirectSolve
    \/ TextSolve
    \/ Finish

Spec == Init /\ [][Next]_vars

---------------------------------------------------------------------------
(* SpecCalls: a provider method invoked by the orchestrator or directly *)

InitCalls ==
    \/ Init
    \/ InitOcr

NextCalls ==
    \/ Next
    \/ NextOcr

SpecCalls == InitCalls /\ [][NextCalls]_vars

---------------------------------------------------------------------------
(* SpecEntry: the convenience entry points of the two image modules *)

\* The OCRResult of the provider _perform_ocr calls; None when it calls none.
perform_ocr_result(s, provider, mathpix_out, vision_out) ==
    IF provider = "mathpix"
    THEN MathpixOCR_extract_math(MathpixOCR_is_available(s), mathpix_out)
    ELSE IF provider = "google_vision"
    THEN GoogleVisionOCR_extract_math(GoogleVisionOCR_is_available(s), vision_out)
    ELSE None

\* math_solution solve_from_image, the whole call run on its own, given what
\* each backend does when it is called.
MathProblemSolver_solve_from_image(s, image_input, mathpix_out, vision_out, reasoning_out) ==
    LET loaded   == load_image(image_input)
        primary  == perform_ocr_result(s, perform_ocr_primary(s), mathpix_out, vision_out)
        fallback == perform_ocr_result(s, perform_ocr_fallback(s, primary),
                                       mathpix_out, vision_out)
    IN  IF loaded.kind = "raise" THEN MathProblemSolver_except(loaded.exc)
        ELSE MathProblemSolver_reason(select_best_ocr_result(primary, fallback),
                                      reasoning_out)

\* async solve_math_from_image of either module: the solver is constructed
\* outside any try, then its solve_from_image is awaited.
solve_math_from_image(e) ==
    LET made == RunConstructor(e.environ, e.call)
    IN  IF made.kind = "raise" THEN made
        ELSE IF e.call.module = "math_solution"
        THEN MathProblemSolver_solve_from_image(
                 made.value, e.image_input, e.mathpix, e.vision, e.reasoning)
        ELSE Simplified_MathProblemSolver_solve_from_image(
                 made.value, e.image_input, e.reasoning, e.vision, e.reasoning)

\* asyncio.run(coro): RuntimeError when the calling thread already runs an
\* event loop, else the completion of the coroutine.
asyncio_run(loop_running, completion) ==
    IF loop_running
    THEN Raised(<<"asyncio.run() cannot be called from a running event loop">>)
    ELSE completion

solve_math_from_image_sync(e, loop_running) ==
    asyncio_run(loop_running, solve_math_from_image(e))

EntryEnvirons ==
    {env \in Environs : /\ env.MATHPIX_APP_ID = env.MATHPIX_APP_KEY
                        /\ env.vision \in {"none", "file"}
                        /\ ~env.GOOGLE_API_KEY}

EntryCalls == {c \in ConstructorCalls : c.module \in {"math_solution", "simplified"}}

JsonAnswer == TextOutcome(<<LBrace, M_final_answer, Comma, M_confidence95, RBrace>>)

MathpixAnswer ==
    MathpixOutcome("200", [text |-> MathpixText, latex_simplified |-> MathpixLatex,
                           confidence |-> 95])

MathpixTimeout == MathpixOutcome("raise", [exc |-> <<"Read timed out. (read timeout=30)">>])

\* The entry-point calls checked: arguments, environment, and what each
\* backend does when it is called.
Entries ==
    [environ     : EntryEnvirons,
     call        : EntryCalls,
     image_input : {ImageInput("bytes", TRUE), ImageInput("str", FALSE)},
     mathpix     : {MathpixAnswer, MathpixTimeout},
     vision      : {VisionOutcome("texts", 2, <<>>), VisionOutcome("texts", 0, <<>>)},
     reasoning   : {JsonAnswer, RaiseOutcome(TransportError)}]

InitEntry ==
    /\ entry \in Entries
    /\ running_loop \in BOOLEAN
    /\ async_ret = Pending
    /\ sync_ret = Pending
    /\ ParseOff
    /\ SelectOff
    /\ SolveOff
    /\ OcrOff
    /\ ConcOff

\* A coroutine awaits solve_math_from_image(...).
AwaitEntry ==
    /\ async_ret = Pending
    /\ async_ret' = solve_math_from_image(entry)
    /\ UNCHANGED <<entry, running_loop, sync_ret,
                   parse_vars, select_vars, solve_vars, ocr_vars, conc_vars>>

\* The caller calls solve_math_from_image_sync(...) with the same arguments.
SyncEntry ==
    /\ sync_ret = Pending
    /\ sync_ret' = solve_math_from_image_sync(entry, running_loop)
    /\ UNCHANGED <<entry, running_loop, async_ret,
                   parse_vars, select_vars, solve_vars, ocr_vars, conc_vars>>

NextEntry ==
    \/ AwaitEntry
    \/ SyncEntry

SpecEntry == InitEntry /\ [][NextEntry]_vars

---------------------------------------------------------------------------
(* SpecConc: NSolves math_solution solves in flight together, on one solver *)
(* instance or on one instance each; a step runs from one await to the next *)

Solves == 1..NSolves

ConcEnviron ==
    [MATHPIX_APP_ID |-> TRUE, MATHPIX_APP_KEY |-> TRUE, vision |-> "file",
     GEMINI_API_KEY |-> TRUE, GOOGLE_API_KEY |-> FALSE]

ConcSolvers == {MathProblemSolver_init(ConcEnviron, p).value : p \in {"mathpix", "both"}}

\* The argument of one solve and what each backend answers to that solve.
ConcInputs ==
    [image_input : {ImageInput("bytes", TRUE)},
     mathpix     : {MathpixAnswer, MathpixTimeout},
     vision      : {VisionOutcome("texts", 2, <<>>), VisionOutcome("texts", 0, <<>>)},
     reasoning   : {JsonAnswer, RaiseOutcome(TransportError)}]
    \cup {[image_input |-> ImageInput("str", FALSE), mathpix |-> MathpixAnswer,
           vision |-> VisionOutcome("texts", 2, <<>>), reasoning |-> JsonAnswer]}

\* primary_result and fallback_result kept as attributes of the solver
\* instance: solves on a shared instance use the same pair.
Frame_on_self(i) == IF conc_shared THEN 1 ELSE i

\* Where the locals of solve i live: primary_result and fallback_result are
\* local variables of the call, one pair per call.
Frame(i) == i

NoLocals == [primary_result |-> None, fallback_result |-> None]

\* Another solve than i has started and not yet returned.
OtherInFlight(i) ==
    \E j \in Solves \ {i} : conc_pc[j] \in {"PrimaryDone", "ExtractionDone"}

InitConc ==
    /\ conc_shared \in BOOLEAN
    /\ IF conc_shared
       THEN \E s \in ConcSolvers : conc_solver = [i \in Solves |-> s]
       ELSE conc_solver \in [Solves -> ConcSolvers]
    /\ conc_in \in [Solves -> ConcInputs]
    /\ conc_frame = [i \in Solves |-> NoLocals]
    /\ conc_pc = [i \in Solves |-> "Idle"]
    /\ conc_ret = [i \in Solves |-> Pending]
    /\ conc_overlap = FALSE
    /\ ParseOff
    /\ SelectOff
    /\ SolveOff
    /\ OcrOff
    /\ EntryOff

\* solve_from_image of solve i up to its first await: the image is loaded and
\* _perform_ocr makes its first call.
ConcStart ==
    \E i \in Solves :
       /\ conc_pc[i] = "Idle"
       /\ LET s == conc_solver[i]
              loaded == load_image(conc_in[i].image_input)
          IN  IF loaded.kind = "raise"
              THEN /\ conc_ret' = [conc_ret EXCEPT ![i] = MathProblemSolver_except(loaded.exc)]
                   /\ conc_pc' = [conc_pc EXCEPT ![i] = "Done"]
                   /\ conc_frame' = conc_frame
              ELSE /\ conc_frame' = [conc_frame EXCEPT ![Frame(i)] =
                          [primary_result  |-> perform_ocr_result(s, perform_ocr_primary(s),
                                                   conc_in[i].mathpix, conc_in[i].vision),
                           fallback_result |-> None]]
                   /\ conc_pc' = [conc_pc EXCEPT ![i] = "PrimaryDone"]
                   /\ conc_ret' = conc_ret
       /\ conc_overlap' = IF OtherInFlight(i) THEN TRUE ELSE conc_overlap
       /\ UNCHANGED <<conc_shared, conc_solver, conc_in,
                      parse_vars, select_vars, solve_vars, ocr_vars, entry_vars>>

\* _perform_ocr of solve i, second half.
ConcFallback ==
    \E i \in Solves :
       /\ conc_pc[i] = "PrimaryDone"
       /\ LET s == conc_solver[i]
              primary == conc_frame[Frame(i)].primary_result
          IN  conc_frame' = [conc_frame EXCEPT ![Frame(i)].fallback_result =
                  perform_ocr_result(s, perform_ocr_fallback(s, primary),
                                     conc_in[i].mathpix, conc_in[i].vision)]
       /\ conc_pc' = [conc_pc EXCEPT ![i] = "ExtractionDone"]
       /\ conc_overlap' = IF OtherInFlight(i) THEN TRUE ELSE conc_overlap
       /\ UNCHANGED <<conc_shared, conc_solver, conc_in, conc_ret,
                      parse_vars, select_vars, solve_vars, ocr_vars, entry_vars>>

\* Arbitration, the reasoning call and the assembly of the result of solve i.
ConcReason ==
    \E i \in Solves :
       /\ conc_pc[i] = "ExtractionDone"
       /\ conc_ret' = [conc_ret EXCEPT ![i] =
              MathProblemSolver_reason(
                  select_best_ocr_result(conc_frame[Frame(i)].primary_result,
                                         conc_frame[Frame(i)].fallback_result),
                  conc_in[i].reasoning)]
       /\ conc_pc' = [conc_pc EXCEPT ![i] = "Done"]
       /\ conc_overlap' = IF OtherInFlight(i) THEN TRUE ELSE conc_overlap
       /\ UNCHANGED <<conc_shared, conc_solver, conc_in, conc_frame,
                      parse_vars, select_vars, solve_vars, ocr_vars, entry_vars>>

NextConc ==
    \/ ConcStart
    \/ ConcFallback
    \/ ConcReason

SpecConc == InitConc /\ [][NextConc]_vars

---------------------------------------------------------------------------
(* Claims about the pipelines, checked under Spec *)

ReasoningClients == {"gemini", "gemini_vision", "gemini_text"}

\* The last backend call of the solve was a reasoning call that raised.
ReasoningRaised ==
    /\ Len(calls) > 0
    /\ calls[Len(calls)].to \in ReasoningClients
    /\ calls[Len(calls)].kind = "raise"

\* OCR extraction of the current math_solution solve succeeded.
ExtractionSucceeded ==
    /\ solver.module = "math_solution"
    /\ pc = "Done"
    /\ load_image(input).kind = "return"
    /\ (  (primary_result # None /\ primary_result.success)
       \/ (fallback_result # None /\ fallback_result.success))

\* C1: every solve_from_image call (both modules) and every solve_text_problem
\* call returns a result and never raises, whatever the input and whatever each
\* OCR and reasoning backend does.
C1_SolveAlwaysReturns ==
    pc = "Done" => ret.kind = "return"

\* C1 witness: an image was loaded, both OCR backends raised, and the solve
\* returned a result.
C1_Witness ==
    /\ pc = "Done"
    /\ solver.module = "math_solution"
    /\ Len(calls) = 2
    /\ calls[1].kind = "raise" /\ calls[2].kind = "raise"
    /\ ret.kind = "return"

\* C2: when OCR extraction succeeded and the reasoning call raised,
\* solve_from_image returns a result whose problem_type is "error" and whose
\* solution_steps and explanation carry the error text.
C2_ReasoningFailureIsErrorResult ==
    (ExtractionSucceeded /\ ReasoningRaised)
    => /\ ret.kind = "return"
       /\ ret.value.problem_type = <<"error">>
       /\ ret.value.solution_steps = << Fmt("Error occurred: ", TransportError) >>
       /\ ret.value.explanation[Len(ret.value.explanation)]
             = TransportError[Len(TransportError)]

\* C3: in the vision-direct variant, when the vision-direct reasoning call
\* raised and the fallback is enabled with Vision OCR available, solve_from_image
\* runs Vision OCR and, when that succeeds, text reasoning, and returns
\* method_used "vision_ocr_gemini" with the OCR text as extracted_text.
C3_VisionFailureFallsBackToOcr ==
    (pc = "Done" /\ solver.module = "simplified"
        /\ solver.use_vision_ocr_fallback /\ GoogleVisionOCR_is_available(solver)
        /\ Len(calls) > 0 /\ calls[1].to = "gemini_vision" /\ calls[1].kind = "raise")
    => /\ Len(calls) >= 2
       /\ calls[2].to = "google_vision"
       /\ (calls[2].kind = "texts" /\ Len(calls) = 3)
             => /\ calls[3].to = "gemini_text"
                /\ ret.value.method_used = <<"vision_ocr_gemini">>
                /\ ret.value.extracted_text = VisionText

\* The solve failed: the image could not be loaded, no OCR provider succeeded,
\* or the reasoning call raised.
SolveFailed ==
    \/ load_image(input).kind = "raise"
    \/ (solver.module = "math_solution"
           /\ ~select_best_ocr_result(primary_result, fallback_result).success)
    \/ ReasoningRaised

\* The provenance field of a result of either module.
Provenance(r) ==
    IF solver.module = "math_solution" THEN <<r.ocr_provider_used>> ELSE r.method_used

ImageSolveDone == pc = "Done" /\ solver.module \in {"math_solution", "simplified"}

\* C10 as stated, on the solves whose reasoning call did not raise:
\* confidence_score is 0.0 exactly when the result is a failure result with
\* problem_type "error"; a result built from a reasoning answer never has
\* confidence 0.0.
C10_ZeroConfidenceIffErrorResult ==
    (ImageSolveDone /\ ~ReasoningRaised)
    => (ret.value.confidence_score = 0 <=> ret.value.problem_type = <<"error">>)

\* C10 amended: every failed solve (image not loadable, no OCR success, or the
\* reasoning call raised) returns confidence_score 0.0, and every result whose
\* provenance field is "error" has problem_type "error" and confidence 0.0.
C10_FailureHasZeroConfidence ==
    ImageSolveDone
    => /\ SolveFailed => ret.value.confidence_score = 0
       /\ Provenance(ret.value) = <<"error">>
             => (ret.value.problem_type = <<"error">> /\ ret.value.confidence_score = 0)

\* C10 witness: OCR succeeded, the reasoning call raised, and the returned
\* result has confidence 0.0.
C10_Witness ==
    /\ ExtractionSucceeded
    /\ ReasoningRaised
    /\ ret.value.confidence_score = 0

---------------------------------------------------------------------------
(* Claims about arbitration, checked under SpecSelect *)

Attempted(r) == r # None
Succeeded(r) == r # None /\ r.success

\* A missing confidence counts as 0.0.
ConfidenceOf(r) == IF r.confidence = NoConf THEN 0 ELSE r.confidence

\* C4 as stated: when the primary and the fallback provider were both attempted
\* and both failed, arbitration returns the fallback's (last attempted) failure.
C4_BothFailedReturnsFallback ==
    (spc = "done" /\ Attempted(sel_primary) /\ Attempted(sel_fallback)
        /\ ~sel_primary.success /\ ~sel_fallback.success)
    => sel_best = sel_fallback

\* C4 amended: when no attempted provider succeeded, arbitration returns the
\* primary's failure whenever the primary was attempted (also when the fallback
\* failed after it), and the fallback's failure only when no primary was attempted.
C4_NoSuccessReturnsFirstFailure ==
    (spc = "done" /\ ~Succeeded(sel_primary) /\ ~Succeeded(sel_fallback)
        /\ (Attempted(sel_primary) \/ Attempted(sel_fallback)))
    => /\ ~sel_best.success
       /\ Attempted(sel_primary) => sel_best = sel_primary
       /\ ~Attempted(sel_primary) => sel_best = sel_fallback

\* C4 witness: both providers failed and the primary's error is the one returned.
C4_Witness ==
    /\ spc = "done"
    /\ Attempted(sel_primary) /\ ~sel_primary.success
    /\ Attempted(sel_fallback) /\ ~sel_fallback.success
    /\ sel_primary.provider = "mathpix"
    /\ sel_best.error = sel_primary.error
    /\ sel_best.error # sel_fallback.error

\* C5: of two successful results arbitration returns the one with the strictly
\* higher confidence, and the primary on equal confidence; a missing confidence
\* is compared as 0.0.
C5_HigherConfidenceWinsTieToPrimary ==
    (spc = "done" /\ Succeeded(sel_primary) /\ Succeeded(sel_fallback))
    => /\ ConfidenceOf(sel_fallback) > ConfidenceOf(sel_primary) => sel_best = sel_fallback
       /\ ConfidenceOf(sel_primary) > ConfidenceOf(sel_fallback) => sel_best = sel_primary
       /\ ConfidenceOf(sel_primary) = ConfidenceOf(sel_fallback) => sel_best = sel_primary

\* C5 witness: Mathpix (missing confidence) and Vision (confidence 0.0) both
\* succeeded; the tie goes to Mathpix, the primary.
C5_Witness ==
    /\ spc = "done"
    /\ Succeeded(sel_primary) /\ Succeeded(sel_fallback)
    /\ sel_primary.provider = "mathpix" /\ sel_primary.confidence = NoConf
    /\ sel_fallback.provider = "google_vision" /\ sel_fallback.confidence = 0
    /\ sel_best = sel_primary

\* C6: when exactly one of primary and fallback is a success, arbitration
\* returns it, whatever its position and confidence and whether the other is a
\* failure or absent.
C6_SingleSuccessSelected ==
    (spc = "done" /\ Succeeded(sel_primary) # Succeeded(sel_fallback))
    => sel_best = (IF Succeeded(sel_primary) THEN sel_primary ELSE sel_fallback)

\* C6 witness: the primary failed and the fallback succeeded with confidence
\* 0.0; the fallback is returned.
C6_Witness ==
    /\ spc = "done"
    /\ Attempted(sel_primary) /\ ~sel_primary.success
    /\ Succeeded(sel_fallback) /\ sel_fallback.confidence = 0
    /\ sel_best = sel_fallback

---------------------------------------------------------------------------
(* Claims about the response parser, checked under SpecParse *)

\* The substring from the first '{' to the last '}' ("" when either is missing).
BraceSubstring(t) ==
    IF Find(t, LBrace) = -1 \/ RFind(t, RBrace) = -1 THEN <<>>
    ELSE Slice(t, Find(t, LBrace), RFind(t, RBrace) + 1)

\* No '{' at all, no '}' at all, or every '}' before the first '{'.
NoBracePair(t) ==
    \/ Find(t, LBrace) = -1
    \/ RFind(t, RBrace) = -1
    \/ RFind(t, RBrace) < Find(t, LBrace)

\* The client answered on its fallback path with the raw text t.
FallbackParse(d, t) ==
    /\ d.confidence = 70
    /\ d.explanation = t
    /\ d.solution_steps = <<t>>

\* C7: in every reasoning client, a backend text whose substring from the
\* first '{' to the last '}' does not decode as JSON is answered on the fallback
\* path: confidence 0.7, explanation the raw text, solution_steps [raw text].
C7_UndecodableTakesFallback ==
    (ppc = "done" /\ backend_out.kind = "text"
        /\ ~NoBracePair(backend_out.text)
        /\ ~JsonLoads(BraceSubstring(backend_out.text)).ok)
    => FallbackParse(parsed, backend_out.text)

\* C8: for every raw output without a '{' ... '}' pair, every reasoning client
\* yields confidence 0.7 and solution_steps [raw text].
C8_NoBracePairTakesFallback ==
    (ppc = "done" /\ backend_out.kind = "text" /\ NoBracePair(backend_out.text))
    => (parsed.confidence = 70 /\ parsed.solution_steps = <<backend_out.text>>)

\* What a client returns for the decoded object obj.
ObjectReturned(c, obj) ==
    IF c = "GeminiVisionSolver" THEN DictSet(obj, "method", <<"gemini_vision">>) ELSE obj

---------------------------------------------------------------------------
(* Claims about the shape of the results, checked under Spec *)

\* The last backend call of the solve was a reasoning call whose output
\* decoded to a JSON object.
ReasoningDecoded ==
    /\ Len(calls) > 0
    /\ calls[Len(calls)].to \in ReasoningClients
    /\ calls[Len(calls)].kind = "text"
    /\ ~NoBracePair(calls[Len(calls)].out.text)
    /\ JsonLoads(BraceSubstring(calls[Len(calls)].out.text)).ok

\* The JSON object the reasoning backend answered with.
BackendObject == JsonLoads(BraceSubstring(calls[Len(calls)].out.text)).value

\* The difficulty of the returned result r is one of the five enum members.
\* solve_from_image returns the enum member; solve_text_problem returns a dict
\* whose "difficulty", when present, is a string.
DifficultyIsEnumMember(r) ==
    IF solver.module = "text"
    THEN /\ "difficulty" \in DOMAIN r
         /\ Len(r.difficulty) = 1
         /\ r.difficulty[1] \in Difficulties
    ELSE r.difficulty \in Difficulties

\* The difficulty of the returned result r is the default member.
DifficultyIsDefault(r) ==
    IF solver.module = "text"
    THEN "difficulty" \in DOMAIN r /\ r.difficulty = <<"high_school">>
    ELSE r.difficulty = "high_school"

\* C11: every result returned by solve_from_image (both modules) and by
\* solve_text_problem has a difficulty among elementary, middle_school,
\* high_school, college, advanced, and a backend difficulty outside these five
\* (a missing key and "unknown" included) is mapped to one and the same default.
C11_DifficultyAlwaysEnumMember ==
    pc = "Done"
    => /\ DifficultyIsEnumMember(ret.value)
       /\ (ReasoningDecoded
              /\ DictGet(BackendObject, "difficulty", <<"unknown">>)
                    \notin {<<d>> : d \in Difficulties})
          => DifficultyIsDefault(ret.value)

\* The fields every caller renders.
RenderedFields == {"final_answer", "explanation", "study_tips", "solution_steps"}

\* C12: on every terminal path of solve_from_image and of solve_text_problem
\* (parsed JSON, fallback parse, error) the result has the fields final_answer,
\* explanation, study_tips, solution_steps and a confidence, also when the
\* backend's JSON object omits some of these keys.
C12_ResultShapeIdentical ==
    pc = "Done"
    => /\ RenderedFields \subseteq DOMAIN ret.value
       /\ {"confidence", "confidence_score"} \cap DOMAIN ret.value # {}

---------------------------------------------------------------------------
(* Claims about the OCR stage of math_solution, checked under Spec *)

\* A math_solution solve whose image was loaded has completed.
OcrSolveDone ==
    /\ pc = "Done"
    /\ solver.module = "math_solution"
    /\ load_image(input).kind = "return"

\* The calls of the current solve made to the client to.
CallsTo(to) == {i \in 1..Len(calls) : calls[i].to = to}

\* The text t ends with e.
EndsWith(t, e) ==
    /\ Len(e) <= Len(t)
    /\ SubSeq(t, Len(t) - Len(e) + 1, Len(t)) = e

\* The error texts of the OCR stage: those of the attempted providers, or the
\* text reported when no provider was attempted.
OcrErrorTexts ==
    IF ~Attempted(primary_result) /\ ~Attempted(fallback_result)
    THEN {<<"No OCR providers available">>}
    ELSE {r.error : r \in {primary_result, fallback_result} \ {None}}

\* C13: under every preference mode, when no OCR provider yields a success
\* (every attempted provider failed, or none is available), solve_from_image
\* returns problem_type "error", confidence_score 0.0, ocr_provider_used "error"
\* and an empty extracted_text, and its explanation carries the OCR error text.
C13_NoOcrSuccessIsErrorResult ==
    (OcrSolveDone /\ ~Succeeded(primary_result) /\ ~Succeeded(fallback_result))
    => /\ ret.kind = "return"
       /\ ret.value.problem_type = <<"error">>
       /\ ret.value.confidence_score = 0
       /\ ret.value.ocr_provider_used = "error"
       /\ ret.value.extracted_text = <<>>
       /\ \E e \in OcrErrorTexts :
             EndsWith(ret.value.explanation, <<"OCR failed: ">> \o e)

\* C13 witness: under BOTH, Mathpix answered with a non-200 status and Vision
\* detected no text; the solve returned the error result.
C13_Witness ==
    /\ OcrSolveDone
    /\ solver.preferred_ocr = "both"
    /\ Len(calls) = 2
    /\ calls[1].kind = "non200"
    /\ calls[2].kind = "texts" /\ calls[2].out.regions = 0
    /\ ret.value.ocr_provider_used = "error"

---------------------------------------------------------------------------
(* Claims about solve_text_problem, checked under Spec *)

PassedThrough == {"final_answer", "solution_steps", "confidence"}

\* C15: whenever the output of the reasoning backend decodes to a JSON object,
\* solve_text_problem returns final_answer, solution_steps and confidence
\* exactly as that object has them (absent when the object lacks them), and the
\* solve calls no OCR provider.
C15_TextSolvePassesObjectThrough ==
    (pc = "Done" /\ solver.module = "text" /\ ReasoningDecoded)
    => /\ ret.kind = "return"
       /\ \A k \in PassedThrough :
             IF k \in DOMAIN BackendObject
             THEN k \in DOMAIN ret.value /\ ret.value[k] = BackendObject[k]
             ELSE k \notin DOMAIN ret.value
       /\ CallsTo("mathpix") = {} /\ CallsTo("google_vision") = {}
       /\ Cardinality(CallsTo("gemini_text")) = 1

\* C15 witness: Scenario A. The backend answers "Solve for x: 2x + 5 = 15" with
\* final_answer "x = 5", two steps and confidence 0.95, and these are returned.
C15_Witness ==
    /\ pc = "Done" /\ solver.module = "text"
    /\ input.text = ScenarioAText
    /\ calls[1].out.kind = "text"
    /\ calls[1].out.text
          = <<LBrace, M_final_answer, Comma, M_steps, Comma, M_confidence95, RBrace>>
    /\ ret.value.final_answer = <<"x = 5">>
    /\ ret.value.solution_steps = << <<"Subtract 5">>, <<"Divide by 2">> >>
    /\ ret.value.confidence = 95

---------------------------------------------------------------------------
(* Claims about the OCR provider interface, checked under SpecOcr *)

\* The backend of the provider under test was called and responded
\* successfully: a 200 with a JSON body, or a response with text annotations
\* and no error message.
BackendSucceeded ==
    /\ ocr_available
    /\ provider_out.kind = (IF ocr_provider = "MathpixOCR.extract_math" THEN "200" ELSE "texts")

\* The error text of a provider result (a success dict of extract_text has none).
ProviderError(r) == IF "error" \in DOMAIN r THEN r.error ELSE <<>>

\* The backend call raised an exception whose str() is e.
BackendRaised(e) ==
    /\ ocr_available
    /\ provider_out.kind = "raise"
    /\ e = (IF ocr_provider = "MathpixOCR.extract_math"
            THEN provider_out.body.exc ELSE provider_out.message)

\* C16 as stated: extract_math and extract_text never raise; whenever the
\* backend did not respond successfully (non-200, timeout, transport error,
\* malformed body, missing credentials) they return success false with a
\* non-empty error text, and they return success true only when it did.
C16_FailureHasNonEmptyError ==
    opc = "done"
    => /\ provider_result.kind = "return"
       /\ ~BackendSucceeded
             => /\ ~provider_result.value.success
                /\ ProviderError(provider_result.value) # <<>>
       /\ provider_result.value.success => BackendSucceeded

\* C16 amended: extract_math and extract_text never raise; whenever the backend
\* did not respond successfully they return success false; the error text of an
\* exception is its str(), which is empty for an exception without a message,
\* and every other failure has a non-empty error text; success true is returned
\* only when the backend responded successfully.
C16_FailureCarriesBackendError ==
    opc = "done"
    => /\ provider_result.kind = "return"
       /\ ~BackendSucceeded
             => /\ ~provider_result.value.success
                /\ (ProviderError(provider_result.value) = <<>>) <=> BackendRaised(<<>>)
       /\ \A e \in ExceptionTexts :
             BackendRaised(e) => ProviderError(provider_result.value) = e
       /\ provider_result.value.success => BackendSucceeded

\* C16 witness: the Mathpix request timed out and extract_math returned a
\* failure carrying the timeout text.
C16_Witness ==
    /\ opc = "done"
    /\ ocr_provider = "MathpixOCR.extract_math"
    /\ ocr_available
    /\ provider_out.kind = "raise"
    /\ provider_out.body.exc = <<"Read timed out. (read timeout=30)">>
    /\ provider_result.kind = "return"
    /\ ~provider_result.value.success
    /\ provider_result.value.error = <<"Read timed out. (read timeout=30)">>

---------------------------------------------------------------------------
(* Claims about confidence and about the order of the backend calls,
   checked under Spec *)

\* C17: every result returned by solve_from_image (both modules) has a
\* confidence_score within [0,1], whatever confidence the reasoning backend's
\* JSON or the OCR backend reports (below 0, above 1, or none).
C17_ConfidenceWithinUnitInterval ==
    ImageSolveDone
    => (0 <= ret.value.confidence_score /\ ret.value.confidence_score <= 100)

\* The OCR stage of a math_solution solve has completed.
OcrStageDone ==
    /\ solver.module = "math_solution"
    /\ pc \in {"ExtractionDone", "Done"}
    /\ load_image(input).kind = "return"

OtherProvider(x) == IF x = "mathpix" THEN "google_vision" ELSE "mathpix"

Available(x) ==
    IF x = "mathpix" THEN MathpixOCR_is_available(solver)
    ELSE GoogleVisionOCR_is_available(solver)

\* The backend call c was answered with a success: a 200 from Mathpix, or at
\* least one text annotation from Vision.
CallSucceeded(c) ==
    \/ c.to = "mathpix" /\ c.kind = "200"
    \/ c.to = "google_vision" /\ c.kind = "texts" /\ c.out.regions > 0

\* C18: under a single preferred provider X, _perform_ocr calls X first when X
\* is available, and calls the other provider if and only if the other is
\* available and X is unavailable or returned a failure; when X succeeds the
\* other provider is not called and X's result is selected whatever its
\* confidence.
C18_PreferredFirstOtherOnlyOnFailure ==
    (OcrStageDone /\ solver.preferred_ocr \in {"mathpix", "google_vision"})
    => LET X == solver.preferred_ocr
           O == OtherProvider(solver.preferred_ocr)
       IN  /\ IF Available(X) THEN CallsTo(X) = {1} ELSE CallsTo(X) = {}
           /\ Cardinality(CallsTo(O)) <= 1
           /\ (CallsTo(O) # {})
                 <=> (Available(O) /\ (~Available(X) \/ ~CallSucceeded(calls[1])))
           /\ (Available(X) /\ CallSucceeded(calls[1]))
                 => /\ CallsTo(O) = {}
                    /\ primary_result.provider = X
                    /\ select_best_ocr_result(primary_result, fallback_result) = primary_result

\* C18 witness: Vision is preferred, both providers are available, Vision
\* succeeds with confidence 0.0 and Mathpix is not called.
C18_Witness ==
    /\ OcrStageDone
    /\ pc = "ExtractionDone"
    /\ solver.preferred_ocr = "google_vision"
    /\ MathpixOCR_is_available(solver)
    /\ Len(calls) = 1
    /\ calls[1].to = "google_vision"
    /\ primary_result.success /\ primary_result.confidence = 0

\* C19: under OCRProvider.BOTH, _perform_ocr calls every available provider
\* once and no unavailable one: Vision is called even when Mathpix succeeded,
\* and an available provider is called whatever the other did.
C19_BothCallsEveryAvailableProvider ==
    (OcrStageDone /\ solver.preferred_ocr = "both")
    => \A p \in {"mathpix", "google_vision"} :
          Cardinality(CallsTo(p)) = (IF Available(p) THEN 1 ELSE 0)

\* C19 witness: under BOTH, Mathpix succeeded and Vision was called after it.
C19_Witness ==
    /\ OcrStageDone
    /\ solver.preferred_ocr = "both"
    /\ Len(calls) >= 2
    /\ calls[1].to = "mathpix" /\ CallSucceeded(calls[1])
    /\ calls[2].to = "google_vision"

\* C20: math_solution's solve_from_image calls the reasoning backend exactly
\* once if and only if arbitration selected a successful OCR result, whatever
\* that result's confidence and text; the call comes after every OCR call of
\* the solve and carries the selected text and latex; no reasoning call is
\* made when extraction failed or the image could not be loaded.
C20_ReasoningIffExtractionSucceeded ==
    (pc = "Done" /\ solver.module = "math_solution")
    => LET best == select_best_ocr_result(primary_result, fallback_result)
       IN  /\ Cardinality(CallsTo("gemini")) <= 1
           /\ (CallsTo("gemini") # {})
                 <=> (load_image(input).kind = "return" /\ best.success)
           /\ \A i \in CallsTo("gemini") :
                 /\ \A j \in CallsTo("mathpix") \cup CallsTo("google_vision") : j < i
                 /\ calls[i].args = <<best.text, best.latex>>

\* C20 witness: Mathpix answered 200 with an empty object (no text, confidence
\* 0.0), and the empty text was sent to the reasoning backend after the OCR call.
C20_Witness ==
    /\ pc = "Done" /\ solver.module = "math_solution"
    /\ Len(calls) = 2
    /\ calls[1].to = "mathpix"
    /\ primary_result.success
    /\ primary_result.confidence = 0
    /\ primary_result.text = <<>>
    /\ calls[2].to = "gemini"
    /\ calls[2].args = <<<<>>, <<>>>>

---------------------------------------------------------------------------
(* Claims about construction, checked under Spec *)

\* The reasoning credential the constructor of the module reads is present.
ReasoningCredentialPresent(module) ==
    IF module = "math_solution" THEN environ.GEMINI_API_KEY
    ELSE IF environ.GEMINI_API_KEY THEN TRUE ELSE environ.GOOGLE_API_KEY

MathpixCredentialsPresent == environ.MATHPIX_APP_ID /\ environ.MATHPIX_APP_KEY

VisionCredentialsUsable == environ.vision \in {"adc", "file"}

\* C24: constructing MathProblemSolver (either module) never fails because of
\* missing or invalid OCR credentials: whatever the Mathpix and Vision
\* credentials are, construction succeeds whenever the reasoning credential is
\* present, a provider whose credentials are missing or invalid reports
\* is_available() false, and no later step of the object's lifetime changes
\* either provider's availability.
C24_OcrCredentialsNeverBlockConstruction ==
    [][ /\ (pc = "Unconstructed"
              /\ solver'.module \in {"math_solution", "simplified"}
              /\ ReasoningCredentialPresent(solver'.module))
           => /\ pc' = "Idle"
              /\ ~MathpixCredentialsPresent => ~MathpixOCR_is_available(solver')
              /\ ~VisionCredentialsUsable => ~GoogleVisionOCR_is_available(solver')
        /\ pc # "Unconstructed"
           => /\ MathpixOCR_is_available(solver') = MathpixOCR_is_available(solver)
              /\ GoogleVisionOCR_is_available(solver') = GoogleVisionOCR_is_available(solver)
              /\ environ' = environ
      ]_vars

\* C24 witness: only the reasoning key is set and the Vision credentials file
\* is invalid; the solver was constructed with both providers unavailable and
\* has completed a solve.
C24_Witness ==
    /\ pc = "Done"
    /\ solver.module = "math_solution"
    /\ environ.vision = "bad_file"
    /\ ~environ.MATHPIX_APP_ID /\ ~environ.MATHPIX_APP_KEY
    /\ ~MathpixOCR_is_available(solver)
    /\ ~GoogleVisionOCR_is_available(solver)
    /\ ret.kind = "return"

\* C28: a vision-direct solver constructed with use_vision_ocr_fallback False
\* holds no OCR provider, calls none on any path of solve_from_image, and never
\* returns method_used "vision_ocr_gemini".
C28_NoFallbackNoOcrProvider ==
    (solver.module = "simplified" /\ pc \in {"Idle", "Done"}
        /\ ~solver.use_vision_ocr_fallback)
    => /\ ~solver.vision_ocr
       /\ CallsTo("google_vision") = {}
       /\ pc = "Done" => ret.value.method_used # <<"vision_ocr_gemini">>

\* C28 witness: the fallback is disabled, usable Vision credentials exist, the
\* vision-direct backend raised, and the solve returned without an OCR call.
C28_Witness ==
    /\ solver.module = "simplified" /\ pc = "Done"
    /\ ~solver.use_vision_ocr_fallback
    /\ environ.vision = "file"
    /\ Len(calls) = 1
    /\ calls[1].to = "gemini_vision" /\ calls[1].kind = "raise"
    /\ ret.kind = "return"

\* C23: a solve_text_problem call leaves the solver object, the environment
\* and the record of earlier calls unchanged, and a call with the same problem
\* text answered by the backend as the previous call was returns a result
\* equal to the previous call's.
C23_TextSolveLeavesStateUnchanged ==
    [][ (pc = "Idle" /\ solver.module = "text" /\ pc' = "Done")
        => /\ solver' = solver
           /\ environ' = environ
           /\ last' = last
           /\ (last # NoLast /\ input' = last.input /\ calls' = last.calls)
                 => ret' = last.ret
      ]_vars

\* C23 witness: two successive solve_text_problem calls with the same text were
\* answered with the same JSON text and returned equal results.
C23_Witness ==
    /\ pc = "Done" /\ solver.module = "text"
    /\ last # NoLast
    /\ input = last.input
    /\ calls = last.calls
    /\ calls[1].kind = "text"
    /\ ret = last.ret
    /\ ret.kind = "return"

---------------------------------------------------------------------------
(* Claims about the Vision OCR provider, checked under SpecOcr *)

\* A GoogleVisionOCR method of either module has answered a Vision response
\* that carries no error.
VisionAnswered ==
    /\ opc = "done"
    /\ ocr_provider \in {"GoogleVisionOCR.extract_math", "GoogleVisionOCR.extract_text"}
    /\ ocr_available
    /\ provider_out.kind = "texts"

\* C26: Vision OCR of either module returns success with confidence 0.85
\* whenever the response has at least one text annotation, whatever their
\* number, and a failure result when it has none.
C26_VisionConfidenceFixedWhenTextFound ==
    VisionAnswered
    => IF provider_out.regions > 0
       THEN /\ provider_result.value.success
            /\ provider_result.value.confidence = 85
       ELSE ~provider_result.value.success

---------------------------------------------------------------------------
(* Claims about the assembled result, checked under Spec *)

\* The current math_solution solve reached its reasoning call: it returns from
\* the try body, not from the exception handler.
ReasoningCalled ==
    /\ pc = "Done"
    /\ solver.module = "math_solution"
    /\ CallsTo("gemini") # {}

\* The dictionary the reasoning client handed to solve_from_image.
ReasoningDict == GeminiMathSolver_solve_math_problem(calls[Len(calls)].out)

\* C29: on every path of math_solution's solve_from_image that returns from the
\* try body, confidence_score is the reasoning dictionary's confidence when the
\* dictionary has that key, and the selected OCR result's confidence (0.0 when
\* that is None) only when the dictionary has no confidence key.
C29_ConfidenceFromReasoningElseOcr ==
    ReasoningCalled
    => LET best == select_best_ocr_result(primary_result, fallback_result)
       IN  IF "confidence" \in DOMAIN ReasoningDict
           THEN ret.value.confidence_score = ReasoningDict.confidence
           ELSE /\ ReasoningDecoded
                /\ ret.value.confidence_score
                      = (IF best.confidence = NoConf THEN 0 ELSE best.confidence)

\* C29 witness: Mathpix reported confidence 0.95, Vision 0.85, and the reasoning
\* JSON carried no confidence key: the result reports Mathpix's 0.95.
C29_Witness ==
    /\ ReasoningCalled
    /\ primary_result.success /\ primary_result.confidence = 95
    /\ fallback_result.success /\ fallback_result.confidence = 85
    /\ ReasoningDecoded
    /\ ~("confidence" \in DOMAIN ReasoningDict)
    /\ ret.value.confidence_score = 95

\* C30: the provenance field of every result of an image solve comes from a
\* closed set whatever the reasoning backend answered: in math_solution
\* ocr_provider_used is "mathpix", "google_vision" or "error" (never "none"),
\* and when it names a provider the extracted_text is the text that provider
\* returned with success; in the vision-direct variant method_used is
\* "gemini_vision", "vision_ocr_gemini" or "error", also when the backend's JSON
\* has a "method" member of its own.
C30_ProvenanceFromClosedSet ==
    ImageSolveDone
    => IF solver.module = "math_solution"
       THEN /\ ret.value.ocr_provider_used \in {"mathpix", "google_vision", "error"}
            /\ IF ret.value.ocr_provider_used = "error"
               THEN ret.value.extracted_text = <<>>
               ELSE \E r \in {primary_result, fallback_result} :
                       /\ r.provider = ret.value.ocr_provider_used
                       /\ r.success
                       /\ r.text = ret.value.extracted_text
       ELSE ret.value.method_used
               \in {<<"gemini_vision">>, <<"vision_ocr_gemini">>, <<"error">>}

\* C30 witness: the vision-direct backend answered with a JSON object whose
\* "method" member is "custom", and the result reports "gemini_vision".
C30_Witness ==
    /\ pc = "Done" /\ solver.module = "simplified"
    /\ Len(calls) = 1
    /\ calls[1].kind = "text"
    /\ "method" \in DOMAIN JsonLoads(BraceSubstring(calls[1].out.text)).value
    /\ JsonLoads(BraceSubstring(calls[1].out.text)).value.method = <<"custom">>
    /\ ret.value.method_used = <<"gemini_vision">>

---------------------------------------------------------------------------
(* Claims about the entry points, checked under SpecEntry *)

\* C25: solve_math_from_image_sync returns the result that awaiting
\* solve_math_from_image with the same arguments, environment and backend
\* responses returns, and never raises, whether or not the caller's thread
\* runs an event loop.
C25_SyncReturnsWhatAsyncReturns ==
    (async_ret # Pending /\ sync_ret # Pending)
    => /\ sync_ret = async_ret
       /\ sync_ret.kind = "return"

---------------------------------------------------------------------------
(* Claims about outbound calls, checked under SpecCalls *)

\* C27: in one math_solution solve_from_image call, whatever the preference
\* mode and the outcomes, each OCR provider is called at most once, a provider
\* whose is_available() is false is not called, and the reasoning backend is
\* called at most once; an OCR provider method invoked directly makes one
\* outbound call when available and none when is_available() is false.
C27_AtMostOneCallPerBackend ==
    /\ (pc \in {"ExtractionInProgress", "PrimaryDone", "ExtractionDone", "Done"}
          /\ solver.module = "math_solution")
       => /\ \A p \in {"mathpix", "google_vision"} :
                /\ Cardinality(CallsTo(p)) <= 1
                /\ ~Available(p) => CallsTo(p) = {}
          /\ Cardinality(CallsTo("gemini")) <= 1
    /\ (opc = "done"
          /\ ocr_provider \in {"MathpixOCR.extract_math", "GoogleVisionOCR.extract_math"})
       => IF ocr_available THEN Len(provider_calls) = 1 ELSE provider_calls = <<>>

\* C27 witness: MathpixOCR.extract_math was invoked directly without
\* credentials while the endpoint would have answered 200: it returned a
\* failure and made no outbound call.
C27_Witness ==
    /\ opc = "done"
    /\ ocr_provider = "MathpixOCR.extract_math"
    /\ ~ocr_available
    /\ provider_out.kind = "200"
    /\ provider_calls = <<>>
    /\ ~provider_result.value.success

---------------------------------------------------------------------------
(* Claims about concurrent solves, checked under SpecConc *)

\* The result solve i returns when it runs alone with its input and its
\* backend responses.
AloneResult(i) ==
    MathProblemSolver_solve_from_image(conc_solver[i], conc_in[i].image_input,
        conc_in[i].mathpix, conc_in[i].vision, conc_in[i].reasoning)

\* C22: NSolves solves in flight together, on one solver instance or on
\* separate instances, do not disturb one another: under every interleaving of
\* their steps each solve returns the result it returns when run alone with the
\* same input and backend responses, and no step changes a solver instance.
C22_ConcurrentSolvesIndependent ==
    \A i \in Solves :
       /\ conc_solver[i] \in ConcSolvers
       /\ conc_pc[i] = "Done" => conc_ret[i] = AloneResult(i)

\* C22 witness: two solves on one solver instance with different Mathpix
\* responses interleaved their steps and returned different results.
C22_Witness ==
    /\ conc_shared
    /\ conc_overlap
    /\ conc_pc[1] = "Done" /\ conc_pc[2] = "Done"
    /\ conc_in[1].mathpix # conc_in[2].mathpix
    /\ conc_ret[1] # conc_ret[2]
    /\ conc_ret[1].value.ocr_provider_used = "mathpix"
    /\ conc_ret[2].value.ocr_provider_used = "google_vision"

===========================================================================
